---- MODULE Spec2Model ----
(***************************************************************************)
(* A model of the schema-driven transformation engine of gen3_etl:         *)
(* src/elasticsearch/etl/transform.py.  Python dictionaries are functions  *)
(* whose DOMAIN is the set of keys, Python lists are sequences, and every  *)
(* Python scalar is a tagged record (see "Python values").                 *)
(***************************************************************************)
EXTENDS Integers, Sequences, FiniteSets, TLC

(***************************************************************************)
(* Python values.  k is the Python type: "none", "str" (s holds the        *)
(* characters), "numstr" (a str whose text denotes the number ip.fp),      *)
(* "int" and "float" (the number ip.fp) and "list" (l holds the items).    *)
(* A number is written in binary: ip are the bits of its integer part,     *)
(* most significant first and without leading zeros, fp the bits after the *)
(* binary point, without trailing zeros.                                   *)
(***************************************************************************)
None == [k |-> "none", s |-> <<>>, ip |-> <<>>, fp |-> <<>>, l |-> <<>>]

Str(chars) == [k |-> "str", s |-> chars, ip |-> <<>>, fp |-> <<>>, l |-> <<>>]

NumStr(i, f) == [k |-> "numstr", s |-> <<>>, ip |-> i, fp |-> f, l |-> <<>>]

PyInt(i) == [k |-> "int", s |-> <<>>, ip |-> i, fp |-> <<>>, l |-> <<>>]

PyFloat(i, f) == [k |-> "float", s |-> <<>>, ip |-> i, fp |-> f, l |-> <<>>]

PyList(items) == [k |-> "list", s |-> <<>>, ip |-> <<>>, fp |-> <<>>, l |-> items]

IsNumber(v) == v.k \in {"int", "float"}

DenotesNumber(v) == v.k \in {"int", "float", "numstr"}

\* Python truthiness: bool(v)
Truthy(v) ==
    CASE v.k = "none" -> FALSE
      [] v.k = "str" -> v.s # <<>>
      [] v.k = "numstr" -> TRUE
      [] v.k = "list" -> v.l # <<>>
      [] OTHER -> v.ip # <<>> \/ v.fp # <<>>

\* dict.get(key, default)
Get(d, key, default) == IF key \in DOMAIN d THEN d[key] ELSE default

\* the dictionary d with d[key] = value
Put(d, key, value) == [x \in DOMAIN d \cup {key} |-> IF x = key THEN value ELSE d[x]]

EmptyDict == [x \in {} |-> None]

Range(seq) == {seq[i] : i \in DOMAIN seq}

(***************************************************************************)
(* Binary numerals and float(): Python's float is an IEEE-754 double, the  *)
(* nearest number with a 53-bit significand, ties to even.                 *)
(***************************************************************************)
Mantissa == 53

Zeros(n) == [i \in 1..n |-> 0]

RECURSIVE StripLead(_)
StripLead(b) == IF b # <<>> /\ b[1] = 0 THEN StripLead(Tail(b)) ELSE b

RECURSIVE StripTrail(_)
StripTrail(b) ==
    IF b # <<>> /\ b[Len(b)] = 0 THEN StripTrail(SubSeq(b, 1, Len(b) - 1)) ELSE b

\* b + 1, one bit longer when every bit of b is 1
RECURSIVE Inc(_)
Inc(b) ==
    IF b = <<>> THEN <<1>>
    ELSE IF b[Len(b)] = 0 THEN SubSeq(b, 1, Len(b) - 1) \o <<1>>
    ELSE Inc(SubSeq(b, 1, Len(b) - 1)) \o <<0>>

\* the significand b (leading bit 1) rounded to Mantissa bits, ties to even
RoundBits(b) ==
    IF Len(b) <= Mantissa THEN b
    ELSE LET kept == SubSeq(b, 1, Mantissa)
             rest == SubSeq(b, Mantissa + 1, Len(b))
             half == <<1>> \o Zeros(Len(rest) - 1)
             up == rest[1] = 1 /\ (rest # half \/ kept[Mantissa] = 1)
         IN  (IF up THEN Inc(kept) ELSE kept) \o Zeros(Len(rest))

\* the rounded significand r of a significand of siglen bits, behind the lead
\* leading zeros the bits had; a carry out of the rounding takes one of them
Realigned(lead, siglen, r) ==
    IF lead >= Len(r) - siglen THEN Zeros(lead - (Len(r) - siglen)) \o r ELSE r

RoundedFrom(bits, sig) == Realigned(Len(bits) - Len(sig), Len(sig), RoundBits(sig))

\* the bits of a number with fplen bits after the binary point
SplitBits(full, fplen) ==
    [ip |-> StripLead(SubSeq(full, 1, Len(full) - fplen)),
     fp |-> StripTrail(SubSeq(full, Len(full) - fplen + 1, Len(full)))]

RoundedBits(bits) == RoundedFrom(bits, StripLead(bits))

\* float(x) for the number ip.fp: [ip, fp] of the double nearest to it
FloatOf(ip, fp) == SplitBits(RoundedBits(ip \o fp), Len(fp))

\* int(f) if f.is_integer() else f
IntOrFloat(f) == IF f.fp = <<>> THEN PyInt(f.ip) ELSE PyFloat(f.ip, f.fp)

\* to_num(val): float(val), then int(...) when float.is_integer().  float() raises
\* ValueError on a str that denotes no number and TypeError on None or a list.
ToNum(val) ==
    IF ~DenotesNumber(val)
    THEN [err |-> IF val.k = "str" THEN "ValueError" ELSE "TypeError", v |-> None]
    ELSE [err |-> "", v |-> IntOrFloat(FloatOf(val.ip, val.fp))]

(***************************************************************************)
(* Names.  Node types and subject properties are strings; Chars spells the *)
(* ones the model uses, for the code that looks at their characters.       *)
(***************************************************************************)
NODE_TYPE_BIOSPECIMEN == "biospecimen"

NODE_TYPE_PERSON == "person"

NODE_TYPE_SUBJECT == "subject"

NODE_TYPE_SURVIVAL_CHARACTERISTIC == "survival_characteristic"

NODE_TYPE_TUMOR_ASSESSMENT == "tumor_assessment"

NODE_TYPE_TIMING == "timing"

Chars ==
    "subject" :> <<"s", "u", "b", "j", "e", "c", "t">> @@
    "person" :> <<"p", "e", "r", "s", "o", "n">> @@
    "timing" :> <<"t", "i", "m", "i", "n", "g">> @@
    "survival_characteristic" :> <<"s", "u", "r", "v", "i", "v", "a", "l", "_", "c", "h", "a", "r", "a", "c", "t", "e", "r", "i", "s", "t", "i", "c">> @@
    "study" :> <<"s", "t", "u", "d", "y">> @@
    "histology" :> <<"h", "i", "s", "t", "o", "l", "o", "g", "y">> @@
    "_definitions" :> <<"_", "d", "e", "f", "i", "n", "i", "t", "i", "o", "n", "s">> @@
    "subjects" :> <<"s", "u", "b", "j", "e", "c", "t", "s">> @@
    "persons" :> <<"p", "e", "r", "s", "o", "n", "s">> @@
    "timings" :> <<"t", "i", "m", "i", "n", "g", "s">> @@
    "survival_characteristics" :> <<"s", "u", "r", "v", "i", "v", "a", "l", "_", "c", "h", "a", "r", "a", "c", "t", "e", "r", "i", "s", "t", "i", "c", "s">> @@
    "studies" :> <<"s", "t", "u", "d", "i", "e", "s">> @@
    "histologies" :> <<"h", "i", "s", "t", "o", "l", "o", "g", "i", "e", "s">> @@
    "lab" :> <<"l", "a", "b">> @@
    "labs" :> <<"l", "a", "b", "s">> @@
    "biospecimen" :> <<"b", "i", "o", "s", "p", "e", "c", "i", "m", "e", "n">> @@
    "biospecimens" :> <<"b", "i", "o", "s", "p", "e", "c", "i", "m", "e", "n", "s">> @@
    "tumor_assessment" :> <<"t", "u", "m", "o", "r", "_", "a", "s", "s", "e", "s", "s", "m", "e", "n", "t">> @@
    "tumor_assessments" :> <<"t", "u", "m", "o", "r", "_", "a", "s", "s", "e", "s", "s", "m", "e", "n", "t", "s">> @@
    "y" :> <<"y">> @@
    "ies" :> <<"i", "e", "s">> @@
    "*" :> <<"*">> @@
    "*s" :> <<"*", "s">> @@
    "molecular_analysis" :> <<"m", "o", "l", "e", "c", "u", "l", "a", "r", "_", "a", "n", "a", "l", "y", "s", "i", "s">> @@
    "secondary_malignant_neoplasm" :> <<"s", "e", "c", "o", "n", "d", "a", "r", "y", "_", "m", "a", "l", "i", "g", "n", "a", "n", "t", "_", "n", "e", "o", "p", "l", "a", "s", "m">> @@
    "submitted_unaligned_reads" :> <<"s", "u", "b", "m", "i", "t", "t", "e", "d", "_", "u", "n", "a", "l", "i", "g", "n", "e", "d", "_", "r", "e", "a", "d", "s">> @@
    "_subject_id" :> <<"_", "s", "u", "b", "j", "e", "c", "t", "_", "i", "d">> @@
    "_person_id" :> <<"_", "p", "e", "r", "s", "o", "n", "_", "i", "d">> @@
    "_timing_id" :> <<"_", "t", "i", "m", "i", "n", "g", "_", "i", "d">> @@
    "_study_id" :> <<"_", "s", "t", "u", "d", "y", "_", "i", "d">> @@
    "_histology_id" :> <<"_", "h", "i", "s", "t", "o", "l", "o", "g", "y", "_", "i", "d">> @@
    "_survival_characteristic_id" :> <<"_", "s", "u", "r", "v", "i", "v", "a", "l", "_", "c", "h", "a", "r", "a", "c", "t", "e", "r", "i", "s", "t", "i", "c", "_", "i", "d">>

\* the name the table spells with these characters
NameOf(table, chars) == CHOOSE n \in DOMAIN table : table[n] = chars

\* mutant of PluralizedChars: no 's' is appended
PluralizedCharsWithoutS(node_type) ==
    IF node_type[Len(node_type)] = "y"
    THEN SubSeq(node_type, 1, Len(node_type) - 1) \o <<"i", "e", "s">>
    ELSE node_type

\* node_type[:-1] + 'ies' if node_type.endswith('y'), else node_type + 's'
PluralizedChars(node_type) ==
    IF node_type[Len(node_type)] = "y"
    THEN SubSeq(node_type, 1, Len(node_type) - 1) \o <<"i", "e", "s">>
    ELSE node_type \o <<"s">>

Pluralized(table, node_type) == NameOf(table, PluralizedChars(table[node_type]))

get_pluralized_node_type_name(node_type) ==
    IF node_type \in {"molecular_analysis", "secondary_malignant_neoplasm",
                      "submitted_unaligned_reads"}
    THEN node_type
    ELSE Pluralized(Chars, node_type)

(***************************************************************************)
(* The data dictionary and the coercion rules derived from it.  A data     *)
(* dictionary maps a node type to a dict with the keys "properties" (field *)
(* name -> field properties) and "links" (a list of link dicts); field     *)
(* properties have the optional keys "type" and "enum".  A "type" is       *)
(* [list |-> FALSE, names |-> <<t>>] for the str t and [list |-> TRUE,     *)
(* names |-> ...] for a list of type names.                                *)
(***************************************************************************)
UNSET_IF_NULL_FIELDS ==
    NODE_TYPE_SURVIVAL_CHARACTERISTIC :> {"age_at_lkss"} @@
    NODE_TYPE_TUMOR_ASSESSMENT :>
        {"longest_diam_dim1", "longest_diam_dim2", "longest_diam_dim3"}

REF_FIELDS == NODE_TYPE_SUBJECT :> {"project_id"}

TypeStr(t) == [list |-> FALSE, names |-> <<t>>]

TypeList(ts) == [list |-> TRUE, names |-> ts]

\* the is_number / is_array test of load_field_type_lists for the type name t
TypeIs(field_properties, t) ==
    /\ "type" \in DOMAIN field_properties
    /\ \/ ~field_properties["type"].list /\ field_properties["type"].names = <<t>>
       \/ field_properties["type"].list /\ t \in Range(field_properties["type"].names)

\* node types of the dictionary that load_field_type_lists scans
ScannedNodeTypes(data_dictionary) ==
    {nt \in DOMAIN data_dictionary :
        Chars[nt][1] # "_" /\ "properties" \in DOMAIN data_dictionary[nt]}

\* mutant of FieldRule: the declared type decides, enum or not
FieldRuleByType(node_type, field, field_properties) ==
    IF "type" \in DOMAIN field_properties
    THEN [is_number |-> TypeIs(field_properties, "number"),
          unset_if_null |-> FALSE,
          is_array |-> TypeIs(field_properties, "array")]
    ELSE IF "enum" \in DOMAIN field_properties
            \/ (node_type \in DOMAIN REF_FIELDS /\ field \in REF_FIELDS[node_type])
    THEN [is_number |-> FALSE, unset_if_null |-> FALSE, is_array |-> FALSE]
    ELSE <<>>

\* the rule load_field_type_lists gives a field, or <<>> when it gives none
FieldRule(node_type, field, field_properties) ==
    IF "enum" \in DOMAIN field_properties
       \/ (node_type \in DOMAIN REF_FIELDS /\ field \in REF_FIELDS[node_type])
    THEN [is_number |-> FALSE, unset_if_null |-> FALSE, is_array |-> FALSE]
    ELSE IF "type" \in DOMAIN field_properties
    THEN [is_number |-> TypeIs(field_properties, "number"),
          unset_if_null |->
              \/ ("*" \in DOMAIN UNSET_IF_NULL_FIELDS /\ field \in UNSET_IF_NULL_FIELDS["*"])
              \/ (node_type \in DOMAIN UNSET_IF_NULL_FIELDS
                  /\ field \in UNSET_IF_NULL_FIELDS[node_type]),
          is_array |-> TypeIs(field_properties, "array")]
    ELSE <<>>

\* node_type_fields_to_set after the scan: entries already defined are kept
ScannedRules(data_dictionary, rules) ==
    LET scanned == ScannedNodeTypes(data_dictionary)
        Old(nt) == IF nt \in DOMAIN rules THEN rules[nt] ELSE <<>>
        Kept(nt, f) == f \in DOMAIN Old(nt) /\ DOMAIN Old(nt)[f] # {}
        New(nt, f) == FieldRule(nt, f, data_dictionary[nt]["properties"][f])
        Fields(nt) ==
            DOMAIN Old(nt) \cup
            (IF nt \in scanned
             THEN {f \in DOMAIN data_dictionary[nt]["properties"] :
                      Kept(nt, f) \/ DOMAIN New(nt, f) # {}}
             ELSE {})
    IN  [nt \in DOMAIN rules \cup scanned |->
            [f \in Fields(nt) |->
                IF Kept(nt, f) \/ nt \notin scanned
                   \/ f \notin DOMAIN data_dictionary[nt]["properties"]
                   \/ DOMAIN New(nt, f) = {}
                THEN Old(nt)[f]
                ELSE New(nt, f)]]

\* the fields of every scanned node type whose type is, or holds, the type name t
FieldsOfType(data_dictionary, t) ==
    UNION {{f \in DOMAIN data_dictionary[nt]["properties"] :
               TypeIs(data_dictionary[nt]["properties"][f], t)} :
           nt \in ScannedNodeTypes(data_dictionary)}

\* some node type is left without a field rule, or some field with an empty rule
Incomplete(new) ==
    \E nt \in DOMAIN new :
        \/ DOMAIN new[nt] = {}
        \/ \E f \in DOMAIN new[nt] : DOMAIN new[nt][f] = {}

LoadedFieldTypeLists(data_dictionary, new) ==
    [err |-> IF Incomplete(new) THEN "RuntimeError" ELSE "",
     number_fields |-> FieldsOfType(data_dictionary, "number"),
     array_fields |-> FieldsOfType(data_dictionary, "array"),
     node_type_fields_to_set |-> new]

\* load_field_type_lists(): the new number_fields, array_fields and
\* node_type_fields_to_set, or the error it raises
load_field_type_lists(data_dictionary, rules) ==
    IF DOMAIN data_dictionary = {}
    THEN [err |-> "RuntimeError", number_fields |-> {}, array_fields |-> {},
          node_type_fields_to_set |-> rules]
    ELSE LoadedFieldTypeLists(data_dictionary, ScannedRules(data_dictionary, rules))

\* has_timing_association(node_type)
has_timing_association(data_dictionary, node_type) ==
    IF node_type \notin DOMAIN data_dictionary
    THEN [err |-> "RuntimeError", v |-> FALSE]
    ELSE [err |-> "",
          v |-> /\ "links" \in DOMAIN data_dictionary[node_type]
                /\ \E i \in DOMAIN data_dictionary[node_type]["links"] :
                       LET link == data_dictionary[node_type]["links"][i]
                       IN  "name" \in DOMAIN link /\ link["name"] = "timings"]

(***************************************************************************)
(* Source records.  A record exported from the graph is one flat Python    *)
(* dict; the model keeps its keys in three dicts by the type of the value: *)
(* sys ("type", "id", "submitter_id" -> a string), f (field name -> a      *)
(* Python value) and rel ("subjects", "persons", "timings" -> a list of    *)
(* stubs).  A stub is a dict with the keys "node_id" and "submitter_id".   *)
(***************************************************************************)
Stub(node_id, submitter_id) == [node_id |-> node_id, submitter_id |-> submitter_id]

Dead == Str(<<"D", "e", "a", "d">>)

Alive == Str(<<"A", "l", "i", "v", "e">>)

Unknown == Str(<<"U", "n", "k", "n", "o", "w", "n">>)

Known == Str(<<"K", "n", "o", "w", "n">>)

\* a < b for two bit sequences of the same length
RECURSIVE BitsLess(_, _)
BitsLess(a, b) ==
    /\ a # <<>>
    /\ \/ a[1] < b[1]
       \/ a[1] = b[1] /\ BitsLess(Tail(a), Tail(b))

\* v < w for two Python numbers
NumLess(v, w) ==
    \/ Len(v.ip) < Len(w.ip)
    \/ Len(v.ip) = Len(w.ip) /\ BitsLess(v.ip, w.ip)
    \/ /\ v.ip = w.ip
       /\ LET n == IF Len(v.fp) > Len(w.fp) THEN Len(v.fp) ELSE Len(w.fp)
          IN  BitsLess(v.fp \o Zeros(n - Len(v.fp)), w.fp \o Zeros(n - Len(w.fp)))

\* whether Python can order v and w: equal values, or two numbers
Comparable(v, w) == v = w \/ (IsNumber(v) /\ IsNumber(w))

\* the sort key of sort_and_flatten_survival_characteristics:
\* ('age_at_lkss' in ssc, ssc.get('age_at_lkss', 0))
SortKey(ssc) ==
    [has |-> "age_at_lkss" \in DOMAIN ssc.f,
     age |-> Get(ssc.f, "age_at_lkss", PyInt(<<>>))]

\* key a < key b, as Python compares the two tuples
KeyLess(a, b) ==
    IF a.has # b.has THEN b.has
    ELSE a.age # b.age /\ NumLess(a.age, b.age)

\* comparing the two keys raises TypeError
KeysIncomparable(a, b) == a.has = b.has /\ ~Comparable(a.age, b.age)

\* sorted(records, key=SortKey, reverse=True): stable, largest key first
RECURSIVE InsertDescending(_, _)
InsertDescending(sorted, r) ==
    IF sorted = <<>> THEN <<r>>
    ELSE IF KeyLess(SortKey(sorted[1]), SortKey(r)) THEN <<r>> \o sorted
    ELSE <<sorted[1]>> \o InsertDescending(Tail(sorted), r)

RECURSIVE SortedDescending(_)
SortedDescending(records) ==
    IF records = <<>> THEN <<>>
    ELSE InsertDescending(SortedDescending(SubSeq(records, 1, Len(records) - 1)),
                          records[Len(records)])

\* the sort reaches a comparison that raises TypeError: two records that end up
\* next to each other are always compared
SortRaises(records) ==
    \E i, j \in DOMAIN records : KeysIncomparable(SortKey(records[i]), SortKey(records[j]))

\* the first validation error of the first loop, record by record, or ""
RECURSIVE FlattenValidation(_)
FlattenValidation(survival_characteristics) ==
    IF survival_characteristics = <<>> THEN ""
    ELSE LET sc == survival_characteristics[1]
         IN  IF "type" \notin DOMAIN sc.sys
                \/ sc.sys["type"] # NODE_TYPE_SURVIVAL_CHARACTERISTIC
             THEN "TypeError"
             ELSE IF "subjects" \notin DOMAIN sc.rel \/ sc.rel["subjects"] = <<>>
             THEN "RuntimeError"
             ELSE IF \E i \in DOMAIN sc.rel["subjects"] :
                        \/ "submitter_id" \notin DOMAIN sc.rel["subjects"][i]
                        \/ sc.rel["subjects"][i]["submitter_id"] = ""
             THEN "RuntimeError"
             ELSE FlattenValidation(Tail(survival_characteristics))

\* the (subject submitter id, record) pairs in the order the first loop appends them
RECURSIVE SubjectPairs(_)
SubjectPairs(survival_characteristics) ==
    IF survival_characteristics = <<>> THEN <<>>
    ELSE LET sc == survival_characteristics[1]
         IN  [i \in DOMAIN sc.rel["subjects"] |->
                 [subject_id |-> sc.rel["subjects"][i]["submitter_id"], record |-> sc]]
             \o SubjectPairs(Tail(survival_characteristics))

\* mutant of FirstSeen: a subject seen later is put before the ones seen earlier
RECURSIVE FirstSeenNewestFirst(_, _)
FirstSeenNewestFirst(pairs, seen) ==
    IF pairs = <<>> THEN <<>>
    ELSE IF pairs[1].subject_id \in seen THEN FirstSeenNewestFirst(Tail(pairs), seen)
    ELSE FirstSeenNewestFirst(Tail(pairs), seen \cup {pairs[1].subject_id})
         \o <<pairs[1].subject_id>>

\* the keys of survival_characteristics_by_subject, in insertion order
RECURSIVE FirstSeen(_, _)
FirstSeen(pairs, seen) ==
    IF pairs = <<>> THEN <<>>
    ELSE IF pairs[1].subject_id \in seen THEN FirstSeen(Tail(pairs), seen)
    ELSE <<pairs[1].subject_id>> \o FirstSeen(Tail(pairs), seen \cup {pairs[1].subject_id})

\* survival_characteristics_by_subject[subject_id]
SubjectGroup(pairs, subject_id) ==
    LET mine == SelectSeq(pairs, LAMBDA p : p.subject_id = subject_id)
    IN  [i \in DOMAIN mine |-> mine[i].record]

\* mutant of PreferredSurvivalCharacteristic: the top-most record, 'Dead' or not
PreferredIgnoringDead(subject_survival_characteristics) ==
    SortedDescending(subject_survival_characteristics)[1]

\* the preferred record of one subject's group: the top-most record having
\* lkss = 'Dead' if there is one, else the top-most record
PreferredSurvivalCharacteristic(subject_survival_characteristics) ==
    LET ordered == SortedDescending(subject_survival_characteristics)
        dead == SelectSeq(ordered, LAMBDA osc : "lkss" \in DOMAIN osc.f /\ osc.f["lkss"] = Dead)
    IN  IF dead # <<>> THEN dead[1] ELSE ordered[1]

\* sort_and_flatten_survival_characteristics(survival_characteristics):
\* the error it raises, or "" and the flattened list
sort_and_flatten_survival_characteristics(survival_characteristics) ==
    LET invalid == FlattenValidation(survival_characteristics)
        pairs == SubjectPairs(survival_characteristics)
        keys == FirstSeen(pairs, {})
    IN  IF invalid # "" THEN [err |-> invalid, v |-> <<>>]
        ELSE IF \E i \in DOMAIN keys : SortRaises(SubjectGroup(pairs, keys[i]))
        THEN [err |-> "TypeError", v |-> <<>>]
        ELSE [err |-> "",
              v |-> [i \in DOMAIN keys |->
                        PreferredSurvivalCharacteristic(SubjectGroup(pairs, keys[i]))]]

(***************************************************************************)
(* Field suppression.  SUPPRESSED_FIELDS is an insertion-ordered dict: a   *)
(* list of [key, spec] pairs.  A dotted name such as                       *)
(* 'study.treatment_arm' is written as the list of its parts,              *)
(* <<"study", "treatment_arm">>, so that '.' in name is Len(name) > 1,     *)
(* name.split('.')[0] is name[1] and name.split('.')[-1] is name[Len].     *)
(* The parts carry no surrounding blanks, which strip() would remove.      *)
(***************************************************************************)
Blank == " "

\* str.strip() on a list of characters
RECURSIVE StripLeft(_)
StripLeft(chars) ==
    IF chars # <<>> /\ chars[1] = Blank THEN StripLeft(Tail(chars)) ELSE chars

RECURSIVE StripRight(_)
StripRight(chars) ==
    IF chars # <<>> /\ chars[Len(chars)] = Blank
    THEN StripRight(SubSeq(chars, 1, Len(chars) - 1))
    ELSE chars

Strip(chars) == StripRight(StripLeft(chars))

\* value.strip(): only a str has the method
StripValue(value) ==
    IF value.k = "str" THEN [err |-> "", v |-> Str(Strip(value.s))]
    ELSE IF value.k = "numstr" THEN [err |-> "", v |-> value]
    ELSE [err |-> "AttributeError", v |-> None]

Wildcard == Str(<<"*">>)

RuleKeys(suppressed) == {suppressed[i].key : i \in DOMAIN suppressed}

\* the control values can_populate_node_record_field collects from the subject
\* aggregates of the record's subject stubs: a list of [err, v] results
ControlValuesOfSubject(source_subject, control_type, control_field) ==
    IF control_type = NODE_TYPE_SUBJECT
    THEN {StripValue(Get(source_subject.f, control_field, Str(<<>>)))}
    ELSE LET child_field == get_pluralized_node_type_name(control_type)
             lists == {name \in DOMAIN source_subject.c :
                          control_type = "*" \/ name = child_field}
         IN  UNION {{StripValue(Get(source_subject.c[name][i], control_field, Str(<<>>))) :
                        i \in DOMAIN source_subject.c[name]} : name \in lists}

\* the type and the field a dotted control_field names; both '*' without a dot
ControlType(control) == IF Len(control) > 1 THEN control[1] ELSE "*"

ControlField(control) == IF Len(control) > 1 THEN control[Len(control)] ELSE "*"

\* the control value the record itself gives: an [err, v] result of strip()
OwnControlValues(node_type, control_type, control_field, source_record) ==
    IF node_type = control_type
    THEN {StripValue(Get(source_record.f, control_field, Str(<<>>)))}
    ELSE {}

SubjectControlValues(stubs, control_type, control_field, subjects) ==
    UNION {ControlValuesOfSubject(subjects[stubs[i]["submitter_id"]],
                                  control_type, control_field) :
           i \in DOMAIN stubs}

\* subjects.get(submitter_id) is None for one of the stubs
Unresolved(stubs, subjects) ==
    \E i \in DOMAIN stubs : stubs[i]["submitter_id"] \notin DOMAIN subjects

\* the answer of the allow list, else of the block list, on the control values
ListsAnswer(allowed_values, blocked_values, record_control_values) ==
    IF allowed_values # {}
    THEN [err |-> "", v |-> record_control_values \cap allowed_values # {}]
    ELSE IF blocked_values # {}
    THEN [err |-> "", v |-> record_control_values \cap blocked_values = {}]
    ELSE [err |-> "", v |-> TRUE]

\* the wildcards first, then the control values collected and the lists
ControlAnswer(allowed_values, blocked_values, unresolved, collected) ==
    IF Wildcard \in allowed_values THEN [err |-> "", v |-> TRUE]
    ELSE IF Wildcard \in blocked_values THEN [err |-> "", v |-> FALSE]
    ELSE IF unresolved \/ \E r \in collected : r.err # ""
    THEN [err |-> "AttributeError", v |-> FALSE]
    ELSE ListsAnswer(allowed_values, blocked_values, {r.v : r \in collected})

\* the answer of the first rule of SUPPRESSED_FIELDS, with the key
\* suppressed_type_field and the value rule_spec
RuleAnswer(suppressed_type_field, rule_spec, node_type, field_name, source_record, stubs, subjects) ==
    IF {"control_field", "allowed_control_field_values",
        "blocked_control_field_values"} \ DOMAIN rule_spec # {}
    THEN [err |-> "RuntimeError", v |-> FALSE]
    ELSE IF \/ suppressed_type_field[Len(suppressed_type_field)] # field_name
            \/ ControlType(suppressed_type_field) \notin {node_type, "*"}
    THEN [err |-> "RuntimeError", v |-> FALSE]
    ELSE ControlAnswer(Range(rule_spec["allowed_control_field_values"]),
                       Range(rule_spec["blocked_control_field_values"]),
                       Unresolved(stubs, subjects),
                       OwnControlValues(node_type, ControlType(rule_spec["control_field"]),
                                        ControlField(rule_spec["control_field"]),
                                        source_record)
                       \cup SubjectControlValues(stubs,
                                                 ControlType(rule_spec["control_field"]),
                                                 ControlField(rule_spec["control_field"]),
                                                 subjects))

\* can_populate_node_record_field(node_type, field_name, source_record, subjects)
\* under the configuration suppressed: the error it raises, or "" and its answer
can_populate_node_record_field(suppressed, node_type, field_name, source_record, subjects) ==
    IF /\ <<field_name>> \notin RuleKeys(suppressed)
       /\ <<node_type, field_name>> \notin RuleKeys(suppressed)
       /\ <<"*", field_name>> \notin RuleKeys(suppressed)
    THEN [err |-> "", v |-> TRUE]
    ELSE RuleAnswer(suppressed[1].key, suppressed[1].spec, node_type, field_name,
                    source_record, Get(source_record.rel, "subjects", <<>>), subjects)

(***************************************************************************)
(* Subject aggregates and the record populator.  A subject aggregate is a  *)
(* Python dict; the model keeps its scalar entries in f (name -> value)    *)
(* and its child collections in c (pluralized node type -> list of output  *)
(* records).  An output record is a dict, name -> value.  An identifier is *)
(* a str written as one symbol.                                            *)
(***************************************************************************)
IdValue(id) == Str(<<id>>)

BIOSPECIMEN_STATUS_FIELD == "biospecimen_status"

BIOSPECIMEN_STATUS_PRESENT == Str(<<"COG Biopathology Center">>)

\* to_array(val): a list as it is, a str split on the delimiter ','
RECURSIVE SplitChars(_, _, _)
SplitChars(chars, delimiter, item) ==
    IF chars = <<>> THEN <<item>>
    ELSE IF chars[1] = delimiter THEN <<item>> \o SplitChars(Tail(chars), delimiter, <<>>)
    ELSE SplitChars(Tail(chars), delimiter, Append(item, chars[1]))

\* to_array(val): a list as it is; a str is read as one line of
\* comma-separated items, and next() raises StopIteration when the str has no
\* line; anything else has no splitlines()
to_array(val) ==
    IF val.k = "list" THEN [err |-> "", v |-> val]
    ELSE IF val.k = "str"
    THEN IF val.s = <<>> THEN [err |-> "StopIteration", v |-> None]
         ELSE [err |-> "", v |-> PyList(SplitChars(val.s, ",", <<>>))]
    ELSE [err |-> "AttributeError", v |-> None]

\* find_record_by_id(id_value, id_field, records): the list of the one match, or <<>>
find_record_by_id(id_value, id_field, records) ==
    LET matches == SelectSeq(records, LAMBDA r : r[id_field] = id_value)
    IN  IF Len(matches) = 1 THEN matches ELSE <<>>

TimingFields ==
    <<"_timing_id", "age_at_course_end", "age_at_course_start", "age_at_disease_phase",
      "course", "course_number", "disease_phase", "disease_phase_number", "timing_id",
      "timing_type", "year_at_disease_phase">>

\* mutant of set_timing_fields: the last field of the list is left out
SetTimingFieldsButLast(node_record, timing_event) ==
    LET copied == {TimingFields[i] : i \in 1..(Len(TimingFields) - 1)}
        set == {x \in copied : x \in DOMAIN timing_event /\ Truthy(timing_event[x])}
    IN  [x \in DOMAIN node_record \cup set |->
            IF x \in set THEN timing_event[x] ELSE node_record[x]]

\* set_timing_fields(node_record, timing_event): node_record afterwards
set_timing_fields(node_record, timing_event) ==
    LET set == {x \in Range(TimingFields) :
                   x \in DOMAIN timing_event /\ Truthy(timing_event[x])}
    IN  [x \in DOMAIN node_record \cup set |->
            IF x \in set THEN timing_event[x] ELSE node_record[x]]

\* the value of a field after to_num or to_array: [err, v]
Coerced(field_spec, source) ==
    IF field_spec.is_number THEN ToNum(source)
    ELSE IF field_spec.is_array THEN to_array(source)
    ELSE [err |-> "", v |-> source]

\* mutant of FieldOutcome: a field without a value is never set to None
FieldOutcomeNeverUnset(field_spec, source, allowed, coerced) ==
    IF source = None THEN [err |-> "", set |-> FALSE, v |-> None]
    ELSE IF allowed.err # "" THEN [err |-> allowed.err, set |-> FALSE, v |-> None]
    ELSE IF allowed.v THEN [err |-> coerced.err, set |-> TRUE, v |-> coerced.v]
    ELSE [err |-> "", set |-> FALSE, v |-> None]

\* one turn of the field loop of populate_node_record, for the source value, the
\* answer of can_populate_node_record_field and the coerced value: the error
\* raised, whether the field is set on the new record, and the value it is set to
FieldOutcome(field_spec, source, allowed, coerced) ==
    IF source # None /\ allowed.err # ""
    THEN [err |-> allowed.err, set |-> FALSE, v |-> None]
    ELSE IF source # None /\ allowed.v
    THEN [err |-> coerced.err, set |-> TRUE, v |-> coerced.v]
    ELSE IF field_spec.unset_if_null THEN [err |-> "", set |-> TRUE, v |-> None]
    ELSE [err |-> "", set |-> FALSE, v |-> None]

PopulatedField(suppressed, node_type, field, field_spec, source_record, subjects) ==
    FieldOutcome(field_spec,
                 Get(source_record.f, field, None),
                 can_populate_node_record_field(suppressed, node_type, field,
                                                source_record, subjects),
                 Coerced(field_spec, Get(source_record.f, field, None)))

\* the new record after the field loop: the fields set, then lkss_obfuscated;
\* one[x] is the outcome of the turn of field x
BaseOf(node_type, one) ==
    LET set == {x \in DOMAIN one : one[x].set}
        new_record == [x \in set |-> one[x].v]
        failed == {x \in DOMAIN one : one[x].err # ""}
    IN  IF failed # {}
        THEN [err |-> one[CHOOSE x \in failed : TRUE].err, v |-> <<>>]
        ELSE IF node_type = NODE_TYPE_SURVIVAL_CHARACTERISTIC /\ "lkss" \in set
        THEN [err |-> "",
              v |-> Put(new_record, "lkss_obfuscated",
                        IF Truthy(new_record["lkss"]) /\ new_record["lkss"] # Unknown
                        THEN Known ELSE new_record["lkss"])]
        ELSE [err |-> "", v |-> new_record]

\* the base fields of the new record
BaseFields(suppressed, rules, node_type, source_record, subjects) ==
    BaseOf(node_type,
           [x \in DOMAIN rules[node_type] |->
               PopulatedField(suppressed, node_type, x, rules[node_type][x],
                              source_record, subjects)])

\* an entry of problematic_records: the record appended (kind says which record it
\* is) and, as a label, the id of the source record it was appended for
Problematic(kind, source_record, rec) ==
    [kind |-> kind, of |-> Get(source_record.sys, "id", ""), rec |-> rec]

\* the new record after the 'timings' branch for one subject stub: the error
\* raised, the record, and whether the source record was appended as problematic
TimingBranch(new_record, source_record, stub, source_timings) ==
    IF "timings" \notin DOMAIN source_record.rel
    THEN [err |-> "", rec |-> new_record, flagged |-> FALSE]
    ELSE IF Len(source_record.rel["timings"]) > 1
    THEN [err |-> "", rec |-> new_record, flagged |-> TRUE]
    ELSE IF stub["node_id"] \notin DOMAIN source_timings
    THEN [err |-> "KeyError", rec |-> new_record, flagged |-> FALSE]
    ELSE IF source_record.rel["timings"] = <<>>
    THEN [err |-> "", rec |-> new_record, flagged |-> FALSE]
    ELSE LET found == find_record_by_id(IdValue(source_record.rel["timings"][1]["node_id"]),
                                        "_timing_id", source_timings[stub["node_id"]])
         IN  [err |-> "",
              rec |-> IF found # <<>> THEN set_timing_fields(new_record, found[1])
                      ELSE new_record,
              flagged |-> FALSE]

\* the subject aggregate after new_record is appended to its collection
\* subject_property_name, and the biospecimen status is set
Appended(new_subject, node_type, subject_property_name, new_record) ==
    [f |-> IF node_type = NODE_TYPE_BIOSPECIMEN
           THEN Put(new_subject.f, BIOSPECIMEN_STATUS_FIELD, BIOSPECIMEN_STATUS_PRESENT)
           ELSE new_subject.f,
     c |-> Put(new_subject.c, subject_property_name,
               Append(Get(new_subject.c, subject_property_name, <<>>), new_record))]

Attach(new_subject, node_type, new_record) ==
    Appended(new_subject, node_type, get_pluralized_node_type_name(node_type), new_record)

\* one turn of the subject-stub loop of populate_node_record, from the loop state
\* st = [err, v, subjects, problematic] (v is new_record), for the outcome timed
\* of the 'timings' branch and the answer association of has_timing_association
Linked(st, node_type, source_record, stub, timed, association) ==
    IF st.err # "" THEN st
    ELSE IF stub["submitter_id"] \notin DOMAIN st.subjects
    THEN [st EXCEPT !.problematic =
             Append(@, Problematic("new_record", source_record, st.v))]
    ELSE IF association.err # "" THEN [st EXCEPT !.err = association.err]
    ELSE IF timed.err # "" THEN [st EXCEPT !.err = timed.err]
    ELSE [err |-> "",
          v |-> timed.rec,
          subjects |-> [st.subjects EXCEPT ![stub["submitter_id"]] =
                           Attach(@, node_type, timed.rec)],
          problematic |->
              IF timed.flagged
              THEN Append(st.problematic,
                          Problematic("source_record", source_record, source_record))
              ELSE st.problematic]

LinkStep(st, cfg, node_type, source_record, stub, source_timings) ==
    Linked(st, node_type, source_record, stub,
           TimingBranch(st.v, source_record, stub, source_timings),
           has_timing_association(cfg.data_dictionary, node_type))

RECURSIVE LinkLoop(_, _, _, _, _, _)
LinkLoop(st, cfg, node_type, source_record, stubs, source_timings) ==
    IF stubs = <<>> THEN st
    ELSE LinkLoop(LinkStep(st, cfg, node_type, source_record, stubs[1], source_timings),
                  cfg, node_type, source_record, Tail(stubs), source_timings)

\* what populate_node_record returns once the base fields are there
Populated(cfg, node_type, source_record, new_subjects, source_timings, problematic_records, set_base_fields_only, base) ==
    LET unchanged == [err |-> "", none |-> FALSE, v |-> <<>>,
                      subjects |-> new_subjects, problematic |-> problematic_records]
    IN  IF node_type \notin DOMAIN cfg.rules THEN [unchanged EXCEPT !.none = TRUE]
        ELSE IF base.err # "" THEN [unchanged EXCEPT !.err = base.err]
        ELSE IF set_base_fields_only THEN [unchanged EXCEPT !.v = base.v]
        ELSE IF "subjects" \notin DOMAIN source_record.rel
        THEN [unchanged EXCEPT !.err = "KeyError"]
        ELSE [none |-> FALSE] @@
             LinkLoop([err |-> "", v |-> base.v, subjects |-> new_subjects,
                       problematic |-> problematic_records],
                      cfg, node_type, source_record,
                      source_record.rel["subjects"], source_timings)

\* populate_node_record(node_type, source_record, new_subjects, source_timings,
\* problematic_records, set_base_fields_only) under the configuration
\* cfg = [suppressed, data_dictionary, rules]: the error raised, whether None is
\* returned, the new record, and new_subjects and problematic_records afterwards.
\* The new record is appended for each subject stub as it is at that turn: with
\* one stub, the only case generate_subject_json lets through, that is the record
\* returned.
populate_node_record(cfg, node_type, source_record, new_subjects, source_timings, problematic_records, set_base_fields_only) ==
    Populated(cfg, node_type, source_record, new_subjects, source_timings,
              problematic_records, set_base_fields_only,
              BaseFields(cfg.suppressed, cfg.rules, node_type, source_record, new_subjects))

(***************************************************************************)
(* The association indexers and the subject record.  The input data is an  *)
(* insertion-ordered dict project -> node type -> list of records: a list  *)
(* of project dicts, in the order of data.items().                         *)
(***************************************************************************)
TimingOptionalFields ==
    {"age_at_course_end", "age_at_course_start", "age_at_disease_phase", "course",
     "course_number", "disease_phase", "disease_phase_number", "timing_type",
     "year_at_disease_phase"}

PersonOptionalFields == {"ethnicity", "race", "sex"}

\* the optional fields an indexer copies from a record: the ones with a truthy
\* value, converted with to_num when the field name is in number_fields
IndexedFields(record, optional_fields, number_fields) ==
    LET kept == {x \in optional_fields : x \in DOMAIN record.f /\ Truthy(record.f[x])}
    IN  [x \in kept |->
            IF x \in number_fields THEN ToNum(record.f[x]) ELSE [err |-> "", v |-> record.f[x]]]

\* the index entry with the converted optional fields: [err, v]
IndexEntryOf(record, id_field, submitter_field, fields) ==
    LET failed == {x \in DOMAIN fields : fields[x].err # ""}
        ids == (id_field :> IdValue(record.sys["id"]))
               @@ (submitter_field :> IdValue(record.sys["submitter_id"]))
    IN  IF failed # {}
        THEN [err |-> fields[CHOOSE x \in failed : TRUE].err, v |-> <<>>]
        ELSE [err |-> "", v |-> ids @@ [x \in DOMAIN fields |-> fields[x].v]]

\* the index entry built from one timing or person record: [err, v]
IndexEntry(record, id_field, submitter_field, optional_fields, number_fields) ==
    IndexEntryOf(record, id_field, submitter_field,
                 IndexedFields(record, optional_fields, number_fields))

\* all the records of a node type, project after project; KeyError without the key
RECURSIVE RecordsOfType(_, _)
RecordsOfType(data, node_type) ==
    IF data = <<>> THEN [err |-> "", v |-> <<>>]
    ELSE LET rest == RecordsOfType(Tail(data), node_type)
         IN  IF node_type \notin DOMAIN data[1] THEN [err |-> "KeyError", v |-> <<>>]
             ELSE [err |-> rest.err, v |-> data[1][node_type] \o rest.v]

\* the index after one copy of the timing is appended, per subject stub of the
\* record, to the list of the stub's node_id
WithTiming(index, stubs, timing) ==
    LET Count(node_id) == Cardinality({i \in DOMAIN stubs : stubs[i]["node_id"] = node_id})
        node_ids == {stubs[i]["node_id"] : i \in DOMAIN stubs}
    IN  [n \in DOMAIN index \cup node_ids |->
            Get(index, n, <<>>)
            \o [i \in 1..(IF n \in node_ids THEN Count(n) ELSE 0) |-> timing]]

\* timings_by_subject_id after the timing records of the list
RECURSIVE TimingIndex(_, _, _)
RECURSIVE TimingIndexed(_, _, _, _)
TimingIndexed(records, number_fields, index, timing) ==
    IF timing.err # "" THEN [err |-> timing.err, v |-> index]
    ELSE TimingIndex(Tail(records), number_fields,
                     WithTiming(index, Get(records[1].rel, "subjects", <<>>), timing.v))

TimingIndex(records, number_fields, index) ==
    IF records = <<>> THEN [err |-> "", v |-> index]
    ELSE TimingIndexed(records, number_fields, index,
                       IndexEntry(records[1], "_timing_id", "timing_id",
                                  TimingOptionalFields, number_fields))

\* get_timings_by_subject_id(data): [err, v]
get_timings_by_subject_id(data, number_fields) ==
    LET records == RecordsOfType(data, NODE_TYPE_TIMING)
    IN  IF records.err # "" THEN [err |-> records.err, v |-> <<>>]
        ELSE TimingIndex(records.v, number_fields, <<>>)

(***************************************************************************)
(* The objects of the timing index.  A dict is an object: two references   *)
(* to one object see each other's changes.  An object is named by the      *)
(* timing record it was made for (its position k in the list of all timing *)
(* records) and by what made it: Source(k) is the record itself, Local(k)  *)
(* the dict timing built for it, DeepCopy(k, j) the copy appended for its  *)
(* j-th subject stub.  The values of the fields are strings and numbers,   *)
(* which cannot be changed in place.                                       *)
(***************************************************************************)
Source(k) == [timing |-> k, copy |-> -1]

Local(k) == [timing |-> k, copy |-> 0]

\* the reference appended is timing itself, for every subject stub
SameObject(k, j) == Local(k)

\* copy.deepcopy(timing) for the j-th subject stub: a new object
DeepCopy(k, j) == [timing |-> k, copy |-> j]

\* the references appended for the k-th timing record, per subject stub, to
\* the list of the stub's node_id
RefsWith(refs, stubs, k) ==
    LET node_ids == {stubs[j]["node_id"] : j \in DOMAIN stubs}
        Positions(n) == SelectSeq([j \in DOMAIN stubs |-> j],
                                  LAMBDA j : stubs[j]["node_id"] = n)
    IN  [n \in DOMAIN refs \cup node_ids |->
            Get(refs, n, <<>>)
            \o (IF n \in node_ids
                THEN [i \in DOMAIN Positions(n) |-> DeepCopy(k, Positions(n)[i])]
                ELSE <<>>)]

\* timings_by_subject_id as lists of references, after the records from k on
RECURSIVE TimingRefs(_, _, _)
TimingRefs(records, k, refs) ==
    IF k > Len(records) THEN refs
    ELSE TimingRefs(records, k + 1,
                    RefsWith(refs, Get(records[k].rel, "subjects", <<>>), k))

\* the objects after get_timings_by_subject_id: the source records, the dicts
\* built for them and their copies, each with its fields
TimingHeap(records, number_fields) ==
    LET Built(k) == IndexEntry(records[k], "_timing_id", "timing_id",
                               TimingOptionalFields, number_fields).v
        copies == UNION {{DeepCopy(k, j) : j \in DOMAIN Get(records[k].rel, "subjects", <<>>)} :
                            k \in DOMAIN records}
        objects == {Source(k) : k \in DOMAIN records} \cup {Local(k) : k \in DOMAIN records}
                   \cup copies
    IN  [object \in objects |->
            IF object.copy = -1 THEN records[object.timing].f ELSE Built(object.timing)]

\* get_timings_by_subject_id(data) with its objects: the error, the index by
\* value, the index by reference and the objects
TimingObjects(data, number_fields) ==
    LET by_value == get_timings_by_subject_id(data, number_fields)
        records == RecordsOfType(data, NODE_TYPE_TIMING)
    IN  IF by_value.err # ""
        THEN [err |-> by_value.err, v |-> <<>>, refs |-> <<>>, heap |-> <<>>]
        ELSE [err |-> "", v |-> by_value.v, refs |-> TimingRefs(records.v, 1, <<>>),
              heap |-> TimingHeap(records.v, number_fields)]

\* persons_by_person_id after the person records of the list
RECURSIVE PersonIndex(_, _, _)
RECURSIVE PersonIndexed(_, _, _, _)
PersonIndexed(records, number_fields, index, person) ==
    IF person.err # "" THEN [err |-> person.err, v |-> index]
    ELSE PersonIndex(Tail(records), number_fields,
                     Put(index, records[1].sys["id"], person.v))

PersonIndex(records, number_fields, index) ==
    IF records = <<>> THEN [err |-> "", v |-> index]
    ELSE PersonIndexed(records, number_fields, index,
                       IndexEntry(records[1], "_person_id", "person_id",
                                  PersonOptionalFields, number_fields))

\* get_persons_by_person_id(data): [err, v]
get_persons_by_person_id(data, number_fields) ==
    LET records == RecordsOfType(data, NODE_TYPE_PERSON)
    IN  IF records.err # "" THEN [err |-> records.err, v |-> <<>>]
        ELSE PersonIndex(records.v, number_fields, <<>>)

\* subject['project_id'].split('-')
ProjectIdParts(project_id) == SplitChars(project_id.s, "-", <<>>)

\* the subject after the person of the one person stub is merged in, with its
\* auth_resource_path: [err, v]
WithPerson(subject, person_stub, source_persons) ==
    LET merged == source_persons[person_stub["node_id"]] @@ subject
        parts == ProjectIdParts(merged["project_id"])
        path == <<"/programs/">> \o parts[1] \o <<"/projects/">> \o parts[2]
                \o <<"/persons/">> \o merged["person_id"].s
                \o <<"/subjects/">> \o merged["subject_submitter_id"].s
    IN  IF person_stub["node_id"] \notin DOMAIN source_persons
        THEN [err |-> "KeyError", v |-> subject]
        ELSE IF "project_id" \notin DOMAIN merged THEN [err |-> "KeyError", v |-> subject]
        ELSE IF merged["project_id"].k # "str" THEN [err |-> "AttributeError", v |-> subject]
        ELSE IF Len(parts) # 2 THEN [err |-> "ValueError", v |-> subject]
        ELSE [err |-> "", v |-> Put(merged, "auth_resource_path", Str(path))]

\* the subject with year_at_disease_phase of the last timing of the subject that
\* has a truthy one
WithYearAtDiseasePhase(subject, source_record, source_timings) ==
    LET subject_timings == Get(source_timings, source_record.sys["id"], <<>>)
        with_year == SelectSeq(subject_timings,
                               LAMBDA timing : /\ "year_at_disease_phase" \in DOMAIN timing
                                               /\ Truthy(timing["year_at_disease_phase"]))
    IN  IF with_year = <<>> THEN subject
        ELSE Put(subject, "year_at_disease_phase",
                 with_year[Len(with_year)]["year_at_disease_phase"])

\* mutant of TooManyPersons: a subject linked to several persons is kept
TooManyPersonsNever(source_record) == FALSE

\* create_subject_record returns None for this source record
TooManyPersons(source_record) ==
    "persons" \in DOMAIN source_record.rel /\ Len(source_record.rel["persons"]) > 1

\* the subject with the fields of its person: the error raised, the subject
\* aggregate, and problematic_records unchanged
SubjectWith(source_record, source_timings, problematic_records, person) ==
    IF person.err # ""
    THEN [err |-> person.err, none |-> FALSE, v |-> [f |-> <<>>, c |-> <<>>],
          problematic |-> problematic_records]
    ELSE [err |-> "", none |-> FALSE,
          v |-> [f |-> WithYearAtDiseasePhase(person.v, source_record, source_timings),
                 c |-> <<>>],
          problematic |-> problematic_records]

\* the subject after the base fields: the error raised, whether None is returned,
\* the subject aggregate, and problematic_records afterwards
SubjectFrom(source_record, source_persons, source_timings, problematic_records, subject, persons) ==
    IF TooManyPersons(source_record)
    THEN [err |-> "", none |-> TRUE, v |-> [f |-> <<>>, c |-> <<>>],
          problematic |->
              Append(problematic_records, Problematic("subject", source_record, subject))]
    ELSE SubjectWith(source_record, source_timings, problematic_records,
                     IF persons = <<>> THEN [err |-> "", v |-> subject]
                     ELSE WithPerson(subject, persons[1], source_persons))

\* subject.update(populate_node_record(NODE_TYPE_SUBJECT, source_record,
\* set_base_fields_only=True)) and what follows; update(None) raises TypeError
SubjectAfterBase(source_record, source_persons, source_timings, problematic_records, base) ==
    IF base.err # "" \/ base.none
    THEN [err |-> IF base.err # "" THEN base.err ELSE "TypeError", none |-> FALSE,
          v |-> [f |-> <<>>, c |-> <<>>], problematic |-> problematic_records]
    ELSE SubjectFrom(source_record, source_persons, source_timings, problematic_records,
                     base.v @@ [_subject_id |-> IdValue(source_record.sys["id"]),
                                subject_submitter_id |->
                                    IdValue(source_record.sys["submitter_id"])],
                     Get(source_record.rel, "persons", <<>>))

\* create_subject_record(source_record, source_persons, source_timings,
\* problematic_records): the error raised, whether None is returned, the subject
\* aggregate, and problematic_records afterwards
create_subject_record(cfg, source_record, source_persons, source_timings, problematic_records) ==
    SubjectAfterBase(source_record, source_persons, source_timings, problematic_records,
                     populate_node_record(cfg, NODE_TYPE_SUBJECT, source_record, <<>>, <<>>,
                                          <<>>, TRUE))

(***************************************************************************)
(* The pieces of generate_subject_json.                                    *)
(***************************************************************************)
\* needle in hay, for two strings given by their characters
ContainsChars(hay, needle) ==
    \E i \in 0..(Len(hay) - Len(needle)) : SubSeq(hay, i + 1, i + Len(needle)) = needle

NotNaming(table, types, excluded) ==
    SelectSeq(types, LAMBDA t : ~ContainsChars(table[t], table[excluded]))

\* list(filter(lambda t: NODE_TYPE_PERSON not in t, node_types))
FilteredNodeTypes(types) == NotNaming(Chars, types, NODE_TYPE_PERSON)

\* mutant of SubjectKey: the subject is stored under its node id
SubjectKeyById(subject) == subject.f["_subject_id"].s[1]

\* the key of subjects under which a subject aggregate is stored
SubjectKey(subject) == subject.f["subject_submitter_id"].s[1]

\* mutant of IsDuplicate: a second subject of the same key replaces the first
IsDuplicateNever(key, stored) == FALSE

\* subject['subject_submitter_id'] in subjects
IsDuplicate(key, stored) == key \in DOMAIN stored

\* RuntimeError('Duplicate subject submitter id found: ...')
DuplicateSubject == "RuntimeError: Duplicate subject submitter id found"

\* list(subjects.values())
SubjectList(stored, keys) == [i \in DOMAIN keys |-> stored[keys[i]]]

(***************************************************************************)
(* Bounds and input values of the model.                                   *)
(***************************************************************************)
\* the longest list of survival_characteristic records flattened on its own
MaxFlatLen == 2

SubmitterIds == {"S1", "S2"}

\* the subject node id that goes with a subject submitter id in a consistent export
NodeIdOf(submitter_id) == IF submitter_id = "S1" THEN "n1" ELSE "n2"

SubjectStub(submitter_id) == Stub(NodeIdOf(submitter_id), submitter_id)

Ten == <<1, 0, 1, 0>>

Twenty == <<1, 0, 1, 0, 0>>

\* the subject associations of a valid survival_characteristic record
StubLists ==
    {<<SubjectStub("S1")>>, <<SubjectStub("S2")>>, <<SubjectStub("S1"), SubjectStub("S2")>>}

\* the fields of a survival_characteristic record: age_at_lkss absent, null or a
\* number; lkss 'Dead', 'Alive' or absent
SurvivalFields ==
    {("lkss" :> lkss) @@ age :
        lkss \in {Dead, Alive},
        age \in {<<>>} \cup {("age_at_lkss" :> a) : a \in {None, PyInt(Ten), PyInt(Twenty)}}}
    \cup {<<>>}

SurvivalRecord(id, fields, stubs) ==
    [sys |-> [type |-> NODE_TYPE_SURVIVAL_CHARACTERISTIC, id |-> id, submitter_id |-> id],
     f |-> fields,
     rel |-> [subjects |-> stubs]]

\* records the first loop of the flattening rejects
InvalidSurvivalRecords(id) ==
    LET ok == SurvivalRecord(id, "lkss" :> Alive, <<SubjectStub("S1")>>)
    IN  {[ok EXCEPT !.sys = [type |-> "study", id |-> id, submitter_id |-> id]],
         [ok EXCEPT !.sys = [id |-> id, submitter_id |-> id]],
         [ok EXCEPT !.rel = <<>>],
         [ok EXCEPT !.rel = [subjects |-> <<>>]],
         [ok EXCEPT !.rel = [subjects |-> <<[node_id |-> "n1"]>>]],
         [ok EXCEPT !.rel = [subjects |-> <<Stub("n1", "")>>]]}

\* the survival_characteristic records that may stand at position i of an input
SurvivalRecordsAt(i) ==
    LET id == <<"r1", "r2", "r3", "r4">>[i]
    IN  {SurvivalRecord(id, fields, stubs) : fields \in SurvivalFields, stubs \in StubLists}
        \cup InvalidSurvivalRecords(id)

\* the lists of at most n survival_characteristic records
RECURSIVE SurvivalListsOfLen(_)
SurvivalListsOfLen(n) ==
    IF n = 0 THEN {<<>>}
    ELSE {Append(front, r) : front \in SurvivalListsOfLen(n - 1), r \in SurvivalRecordsAt(n)}

SurvivalLists(n) == UNION {SurvivalListsOfLen(m) : m \in 0..n}

\* the data dictionary of the model: the node types the transformation reads, with
\* an enum field, a number field, a string field and a reference field among them
EnumField == "enum" :> TypeList(<<"a", "b">>)

NumberField == "type" :> TypeStr("number")

StringField == "type" :> TypeStr("string")

DataDictionary ==
    "_definitions" :> [id |-> "_definitions"] @@
    "subject" :>
        [properties |-> [consortium |-> EnumField, project_id |-> <<>>],
         links |-> <<[name |-> "persons"]>>] @@
    "person" :>
        [properties |-> [sex |-> EnumField, race |-> EnumField, ethnicity |-> EnumField],
         links |-> <<>>] @@
    "timing" :>
        [properties |-> [timing_type |-> EnumField, disease_phase |-> EnumField,
                         age_at_disease_phase |-> NumberField,
                         year_at_disease_phase |-> NumberField],
         links |-> <<[name |-> "subjects"]>>] @@
    "survival_characteristic" :>
        [properties |-> [lkss |-> EnumField, age_at_lkss |-> NumberField],
         links |-> <<[name |-> "subjects"]>>] @@
    "study" :>
        [properties |-> [treatment_arm |-> EnumField, study_id |-> StringField],
         links |-> <<[name |-> "subjects"]>>] @@
    "histology" :>
        [properties |-> [histology |-> EnumField, histology_grade |-> StringField],
         links |-> <<[name |-> "subjects"], [name |-> "timings"]>>]

\* an explicit entry of node_type_fields_to_set, made before the rules are loaded
OverriddenRules ==
    [study |-> [treatment_arm |->
                   [is_number |-> FALSE, unset_if_null |-> TRUE, is_array |-> FALSE]]]

\* a configuration: the suppression rules, the data dictionary and the rules and
\* number fields load_field_type_lists derives from it and the explicit entries
Configured(suppressed, data_dictionary, loaded) ==
    [suppressed |-> suppressed, data_dictionary |-> data_dictionary,
     rules |-> loaded.node_type_fields_to_set, number_fields |-> loaded.number_fields]

Configuration(suppressed, overrides) ==
    Configured(suppressed, DataDictionary, load_field_type_lists(DataDictionary, overrides))

ConsortiumA == Str(<<"A">>)

ConsortiumB == Str(<<"B">>)

\* 'A' with a blank before it
PaddedA == Str(<<" ", "A">>)

\* a rule of SUPPRESSED_FIELDS on study.treatment_arm with control field subject.consortium
ConsortiumRule(allowed, blocked) ==
    [key |-> <<"study", "treatment_arm">>,
     spec |-> [control_field |-> <<"subject", "consortium">>,
               allowed_control_field_values |-> allowed,
               blocked_control_field_values |-> blocked]]

AllowLists ==
    {<<>>, <<ConsortiumA>>, <<ConsortiumB>>, <<ConsortiumA, ConsortiumB>>,
     <<Str(<<>>)>>, <<Wildcard>>}

BlockLists == {<<>>, <<ConsortiumA>>, <<Wildcard>>}

SuppressionConfigs ==
    {<<>>} \cup {<<ConsortiumRule(allowed, blocked)>> :
                    allowed \in AllowLists, blocked \in BlockLists}

\* a subject aggregate as create_subject_record leaves it
SubjectAggregate(id, submitter_id, fields) ==
    [f |-> fields @@ [_subject_id |-> IdValue(id),
                      subject_submitter_id |-> IdValue(submitter_id)],
     c |-> <<>>]

\* the consortium of a subject aggregate: absent, 'A', ' A' or 'B'
ConsortiumFields ==
    {<<>>} \cup {[consortium |-> c] : c \in {ConsortiumA, PaddedA, ConsortiumB}}

Arm == Str(<<"arm">>)

\* the numbers a number field is given: small and large integers and a fraction, as
\* Python numbers and as the str that denotes them
Twelve == <<1, 1, 0, 0>>

Half == <<1>>

\* 2^Mantissa + low
Large(low) == <<1>> \o Zeros(Mantissa - Len(low)) \o low

NumberInputs ==
    {PyInt(<<>>), PyInt(Ten), NumStr(<<>>, <<>>), NumStr(Twelve, <<>>),
     NumStr(Twelve, Half), PyFloat(Twelve, Half),
     NumStr(Large(<<>>), <<>>), NumStr(Large(<<1>>), <<>>), PyInt(Large(<<1>>)),
     NumStr(Large(<<1, 0>>), <<>>), NumStr(Large(<<1, 1>>), <<>>)}

\* a record of a child node type of the subject
ChildRecord(node_type, id, fields, rel) ==
    [sys |-> [type |-> node_type, id |-> id, submitter_id |-> id], f |-> fields, rel |-> rel]

\* the timing records of the model: t1 and t2, each of one subject or of both
TimingFieldSets ==
    {timing_type @@ phase @@ age :
        timing_type \in {<<>>, [timing_type |-> Str(<<"visit">>)]},
        phase \in {<<>>, [disease_phase |-> Str(<<"relapse">>)]},
        age \in {<<>>, [age_at_disease_phase |-> PyInt(Ten)],
                 [age_at_disease_phase |-> NumStr(<<>>, <<>>)]}}

TimingRecord(id, fields, stubs) ==
    ChildRecord(NODE_TYPE_TIMING, id, fields, [subjects |-> stubs])

\* the input of generate_subject_json: MaxProjects projects, with at most
\* MaxSubjectRecords subject records and MaxSurvivalRecords survival_characteristic
\* records over all of them, a subject linked to at most MaxPersons persons
MaxProjects == 2

MaxSubjectRecords == 2

MaxSurvivalRecords == 2

MaxPersons == 2

MaxStudyRecords == 1

SubjectNodeIds == <<"n1", "n2", "n3", "n4">>

PersonIds == <<"q1", "q2", "q3", "q4">>

SurvivalIds == <<"c1", "c2", "c3", "c4">>

ProjectId == Str(<<"p", "-", "1">>)

SeqsUpTo(S, n) == UNION {[1..k -> S] : k \in 0..n}

\* the records of a node type over all projects, and the project of each: the
\* projects of a list of records do not decrease
Placements(choices, n) ==
    {[records |-> all, owner |-> owner] :
        all \in SeqsUpTo(choices, n), owner \in [1..n -> 1..MaxProjects]} 

Placed(placement) ==
    /\ \A i \in DOMAIN placement.records : i > 1 =>
           placement.owner[i - 1] <= placement.owner[i]
    /\ \A i \in DOMAIN placement.owner : i > Len(placement.records) =>
           placement.owner[i] = 1

SubjectChoices == {[submitter_id |-> s, persons |-> n] : s \in SubmitterIds, n \in 0..MaxPersons}

SurvivalChoices ==
    {[subjects |-> <<"S1">>, lkss |-> Dead], [subjects |-> <<"S1">>, lkss |-> Alive],
     [subjects |-> <<"S2">>, lkss |-> Alive], [subjects |-> <<"S1", "S2">>, lkss |-> Alive]}

PersonRecord(id) ==
    [sys |-> [type |-> NODE_TYPE_PERSON, id |-> id, submitter_id |-> id],
     f |-> [sex |-> Str(<<"F">>)], rel |-> <<>>]

\* the subject record at a position of the list of all subject records: a
\* subject without a person link has no key 'persons'
SubjectRecord(i, choice) ==
    [sys |-> [type |-> NODE_TYPE_SUBJECT, id |-> SubjectNodeIds[i],
              submitter_id |-> choice.submitter_id],
     f |-> [project_id |-> ProjectId],
     rel |-> IF choice.persons = 0 THEN <<>>
             ELSE [persons |-> [k \in 1..choice.persons |-> Stub(PersonIds[k], PersonIds[k])]]]

\* the stub of the subject with a submitter id: it names the first subject
\* record with that submitter id, and "n0" when there is none
StubOf(all_subjects, submitter_id) ==
    LET named == {i \in DOMAIN all_subjects : all_subjects[i].submitter_id = submitter_id}
    IN  Stub(IF named = {} THEN "n0"
             ELSE SubjectNodeIds[CHOOSE i \in named : \A j \in named : i <= j],
             submitter_id)

SurvivalRecordOf(i, choice, all_subjects) ==
    ChildRecord(NODE_TYPE_SURVIVAL_CHARACTERISTIC, SurvivalIds[i], [lkss |-> choice.lkss],
                [subjects |-> [k \in DOMAIN choice.subjects |->
                                  StubOf(all_subjects, choice.subjects[k])]])

\* the positions of the records of a placement that are of project p, in their order
OfProject(placement, p) ==
    LET mine == {i \in DOMAIN placement.records : placement.owner[i] = p}
        before == Cardinality({i \in DOMAIN placement.records : placement.owner[i] < p})
    IN  [k \in 1..Cardinality(mine) |-> before + k]

SubjectRecordsOf(placement, positions) ==
    [k \in DOMAIN positions |-> SubjectRecord(positions[k], placement.records[positions[k]])]

SurvivalRecordsOf(placement, positions, all_subjects) ==
    [k \in DOMAIN positions |->
        SurvivalRecordOf(positions[k], placement.records[positions[k]], all_subjects)]

\* the study records of a run: without the key 'subjects', or with no, one or
\* two subject stubs
StudyChoices ==
    {[has_subjects |-> FALSE, subjects |-> <<>>], [has_subjects |-> TRUE, subjects |-> <<>>],
     [has_subjects |-> TRUE, subjects |-> <<"S1">>],
     [has_subjects |-> TRUE, subjects |-> <<"S1", "S2">>]}

StudyIds == <<"d1", "d2", "d3">>

StudyRecordOf(i, choice, all_subjects) ==
    ChildRecord("study", StudyIds[i], [study_id |-> Str(<<"x">>)],
                IF choice.has_subjects
                THEN [subjects |-> [k \in DOMAIN choice.subjects |->
                                       StubOf(all_subjects, choice.subjects[k])]]
                ELSE <<>>)

StudyRecordsOf(placement, positions, all_subjects) ==
    [k \in DOMAIN positions |->
        StudyRecordOf(positions[k], placement.records[positions[k]], all_subjects)]

\* a project dict: the node types without a record have no key
ProjectDict(subject_records, survival_records, study_records) ==
    [person |-> [k \in 1..MaxPersons |-> PersonRecord(PersonIds[k])], timing |-> <<>>]
    @@ (IF subject_records = <<>> THEN <<>> ELSE [subject |-> subject_records])
    @@ (IF survival_records = <<>> THEN <<>>
        ELSE [survival_characteristic |-> survival_records])
    @@ (IF study_records = <<>> THEN <<>> ELSE [study |-> study_records])

DataOf(subject_placement, survival_placement, study_placement) ==
    [p \in 1..MaxProjects |->
        ProjectDict(SubjectRecordsOf(subject_placement, OfProject(subject_placement, p)),
                    SurvivalRecordsOf(survival_placement, OfProject(survival_placement, p),
                                      subject_placement.records),
                    StudyRecordsOf(study_placement, OfProject(study_placement, p),
                                   subject_placement.records))]

NodeTypeLists ==
    {<<NODE_TYPE_PERSON, NODE_TYPE_SUBJECT, NODE_TYPE_SURVIVAL_CHARACTERISTIC, "study">>,
     <<NODE_TYPE_SURVIVAL_CHARACTERISTIC, NODE_TYPE_SUBJECT>>}

(***************************************************************************)
(* State.                                                                  *)
(***************************************************************************)
VARIABLES
    flat_pc,      \* "idle", "start", "once", "twice": the flattening applied 0, 1, 2 times
    flat_in,      \* the list given to sort_and_flatten_survival_characteristics
    flat_out,     \* its result: [err, v]
    flat_again,   \* the result of flattening flat_out.v
    pop_pc,       \* "idle", "start", "done" (a full call), "base" (set_base_fields_only)
    pop_cfg,      \* the configuration of the call of populate_node_record
    pop_type,     \* its node_type
    pop_record,   \* its source_record
    pop_subjects, \* new_subjects before the call
    pop_timings,  \* source_timings
    pop_out,      \* the result of the call
    data,         \* generate_subject_json: the list of the project dicts of data
    node_types,   \* the node types asked for; from Start on, the filtered list
    cfg,          \* SUPPRESSED_FIELDS, data_dictionary, node_type_fields_to_set, number_fields
    timings,      \* the index of get_timings_by_subject_id
    persons,      \* the index of get_persons_by_person_id
    pc,           \* "idle", "start", "types", "records", "done", "raised"
    err,          \* the error raised
    project_num,  \* the position of the project loop in data
    node_type_num,        \* the position of the node type loop in node_types
    node_type_records,    \* the records of the record loop
    record_num,           \* the number of records the record loop has taken
    subjects,             \* the dict subjects: submitter id -> subject aggregate
    subject_keys,         \* the keys of subjects in insertion order
    problematic_records,
    result,               \* the list returned
    unit_pc,      \* one call of one function: "idle", "start", "done"
    unit_fn,      \* the name of the function called
    unit_args,    \* its arguments, and the module state it reads
    unit_out      \* what it returned or raised

flatVars == <<flat_pc, flat_in, flat_out, flat_again>>

popVars == <<pop_pc, pop_cfg, pop_type, pop_record, pop_subjects, pop_timings, pop_out>>

runVars == <<data, node_types, cfg, timings, persons>>

loopVars == <<project_num, node_type_num, node_type_records, record_num>>

subjectVars == <<subjects, subject_keys, problematic_records>>

mainVars == <<runVars, loopVars, subjectVars, pc, err, result>>

unitVars == <<unit_pc, unit_fn, unit_args, unit_out>>

vars == <<flatVars, popVars, mainVars, unitVars>>

NoResult == [err |-> "", v |-> <<>>]

FlatIdle ==
    /\ flat_pc = "idle"
    /\ flat_in = <<>>
    /\ flat_out = NoResult
    /\ flat_again = NoResult

NoCall == [err |-> "", none |-> FALSE, v |-> <<>>, subjects |-> <<>>, problematic |-> <<>>]

PopIdle ==
    /\ pop_pc = "idle"
    /\ pop_cfg = <<>>
    /\ pop_type = ""
    /\ pop_record = <<>>
    /\ pop_subjects = <<>>
    /\ pop_timings = <<>>
    /\ pop_out = NoCall

MainIdle ==
    /\ data = <<>>
    /\ node_types = <<>>
    /\ cfg = <<>>
    /\ timings = <<>>
    /\ persons = <<>>
    /\ pc = "idle"
    /\ err = ""
    /\ project_num = 1
    /\ node_type_num = 1
    /\ node_type_records = <<>>
    /\ record_num = 0
    /\ subjects = <<>>
    /\ subject_keys = <<>>
    /\ problematic_records = <<>>
    /\ result = <<>>

UnitIdle ==
    /\ unit_pc = "idle"
    /\ unit_fn = ""
    /\ unit_args = <<>>
    /\ unit_out = <<>>

(***************************************************************************)
(* sort_and_flatten_survival_characteristics on its own.                   *)
(***************************************************************************)
InitFlat ==
    /\ PopIdle
    /\ MainIdle
    /\ UnitIdle
    /\ flat_pc = "start"
    /\ flat_in \in SurvivalLists(MaxFlatLen)
    /\ flat_out = NoResult
    /\ flat_again = NoResult

\* a call of sort_and_flatten_survival_characteristics(flat_in)
Flatten ==
    /\ flat_pc = "start"
    /\ flat_out' = sort_and_flatten_survival_characteristics(flat_in)
    /\ flat_pc' = "once"
    /\ UNCHANGED <<flat_in, flat_again, popVars, mainVars, unitVars>>

\* a second call, on the list the first call returned
FlattenAgain ==
    /\ flat_pc = "once"
    /\ flat_out.err = ""
    /\ flat_again' = sort_and_flatten_survival_characteristics(flat_out.v)
    /\ flat_pc' = "twice"
    /\ UNCHANGED <<flat_in, flat_out, popVars, mainVars, unitVars>>

NextFlat == Flatten \/ FlattenAgain

SpecFlat == InitFlat /\ [][NextFlat]_vars

(***************************************************************************)
(* populate_node_record on its own: one call, on a study record under a    *)
(* suppression rule, on a survival_characteristic record, or on a          *)
(* histology record with timings.                                          *)
(***************************************************************************)
\* the subject map of a call: the aggregate of S1, with or without a collection
\* of the node type that already holds a record
SubjectMapsOf(s1, earlier) == {[S1 |-> s1], [S1 |-> [s1 EXCEPT !.c = earlier]]}

SubjectMaps(node_type, fields) ==
    SubjectMapsOf(SubjectAggregate("n1", "S1", fields),
                  get_pluralized_node_type_name(node_type) :> <<[earlier |-> None]>>)

\* the subject stubs of a record given to populate_node_record: generate_subject_json
\* passes on records with at most one; S2 has no aggregate
PopStubLists == {<<>>, <<SubjectStub("S1")>>, <<SubjectStub("S2")>>}

InitPopStudy ==
    /\ pop_cfg \in {Configuration(suppressed, overrides) :
                       suppressed \in SuppressionConfigs, overrides \in {<<>>, OverriddenRules}}
    /\ pop_type = "study"
    /\ pop_record \in
           {ChildRecord("study", "r1", arm, [subjects |-> stubs]) :
               arm \in {<<>>, [treatment_arm |-> None], [treatment_arm |-> Arm]},
               stubs \in PopStubLists}
    /\ pop_subjects \in UNION {SubjectMaps("study", fields) : fields \in ConsortiumFields}
    /\ pop_timings = <<>>

InitPopSurvival ==
    /\ pop_cfg = Configuration(<<>>, <<>>)
    /\ pop_type = NODE_TYPE_SURVIVAL_CHARACTERISTIC
    /\ pop_record \in
           {ChildRecord(NODE_TYPE_SURVIVAL_CHARACTERISTIC, "r1", lkss @@ age,
                        [subjects |-> stubs]) :
               lkss \in {<<>>} \cup {[lkss |-> v] : v \in {None, Dead, Alive, Unknown, Str(<<>>)}},
               age \in {<<>>} \cup {[age_at_lkss |-> v] :
                                       v \in NumberInputs \cup {None, Str(<<"x">>)}},
               stubs \in {<<SubjectStub("S1")>>, <<SubjectStub("S2")>>}}
    /\ pop_subjects \in SubjectMaps(NODE_TYPE_SURVIVAL_CHARACTERISTIC, <<>>)
    /\ pop_timings = <<>>

\* the timing records of a call: none, t1, or t1 and t2
YearAtPhase == <<1, 0, 1>>

TimingRecordLists ==
    LET t2 == TimingRecord("t2", [timing_type |-> Str(<<"visit">>),
                                  year_at_disease_phase |-> PyInt(YearAtPhase)],
                           <<SubjectStub("S1")>>)
        first == {TimingRecord("t1", fields, stubs) :
                     fields \in TimingFieldSets,
                     stubs \in {<<SubjectStub("S1")>>, <<SubjectStub("S2")>>,
                                <<SubjectStub("S1"), SubjectStub("S2")>>,
                                <<SubjectStub("S1"), SubjectStub("S1")>>}}
    IN  {<<>>} \cup {<<t1>> : t1 \in first} \cup {<<t1, t2>> : t1 \in first}

InitPopHistology ==
    /\ pop_cfg = Configuration(<<>>, <<>>)
    /\ pop_type = "histology"
    /\ pop_record \in
           {ChildRecord("histology", "r1", fields, [subjects |-> <<SubjectStub("S1")>>] @@ timing_stubs) :
               fields \in {<<>>, [histology |-> Str(<<"h">>)]},
               timing_stubs \in {<<>>} \cup
                           {[timings |-> stubs] :
                               stubs \in {<<>>, <<Stub("t1", "t1")>>, <<Stub("t2", "t2")>>,
                                          <<Stub("t3", "t3")>>,
                                          <<Stub("t1", "t1"), Stub("t2", "t2")>>}}}
    /\ pop_subjects \in SubjectMaps("histology", <<>>)
    /\ pop_timings \in
           {get_timings_by_subject_id(<<[timing |-> records]>>, pop_cfg.number_fields).v :
               records \in TimingRecordLists}

InitPop ==
    /\ FlatIdle
    /\ MainIdle
    /\ UnitIdle
    /\ pop_pc = "start"
    /\ pop_out = NoCall
    /\ InitPopStudy \/ InitPopSurvival \/ InitPopHistology

\* populate_node_record(pop_type, pop_record, pop_subjects, pop_timings, [])
Populate ==
    /\ pop_pc = "start"
    /\ pop_out' = populate_node_record(pop_cfg, pop_type, pop_record, pop_subjects,
                                       pop_timings, <<>>, FALSE)
    /\ pop_pc' = "done"
    /\ UNCHANGED <<pop_cfg, pop_type, pop_record, pop_subjects, pop_timings, flatVars, mainVars, unitVars>>

\* populate_node_record(pop_type, pop_record, set_base_fields_only=True)
PopulateBaseFields ==
    /\ pop_pc = "start"
    /\ pop_out' = populate_node_record(pop_cfg, pop_type, pop_record, pop_subjects,
                                       pop_timings, <<>>, TRUE)
    /\ pop_pc' = "base"
    /\ UNCHANGED <<pop_cfg, pop_type, pop_record, pop_subjects, pop_timings, flatVars, mainVars, unitVars>>

NextPop == Populate \/ PopulateBaseFields

SpecPop == InitPop /\ [][NextPop]_vars

(***************************************************************************)
(* generate_subject_json(data, node_types): one step per turn of its       *)
(* loops.                                                                  *)
(***************************************************************************)
Init ==
    /\ FlatIdle
    /\ PopIdle
    /\ UnitIdle
    /\ \E subject_placement \in {x \in Placements(SubjectChoices, MaxSubjectRecords) : Placed(x)},
          survival_placement \in {x \in Placements(SurvivalChoices, MaxSurvivalRecords) : Placed(x)},
          study_placement \in {x \in Placements(StudyChoices, MaxStudyRecords) : Placed(x)} :
           /\ survival_placement.records = <<>> \/ study_placement.records = <<>>
           /\ data = DataOf(subject_placement, survival_placement, study_placement)
    /\ node_types \in NodeTypeLists
    /\ cfg = [suppressed |-> <<>>, data_dictionary |-> DataDictionary, rules |-> <<>>,
              number_fields |-> {}]
    /\ timings = <<>>
    /\ persons = <<>>
    /\ pc = "start"
    /\ err = ""
    /\ project_num = 1
    /\ node_type_num = 1
    /\ node_type_records = <<>>
    /\ record_num = 0
    /\ subjects = <<>>
    /\ subject_keys = <<>>
    /\ problematic_records = <<>>
    /\ result = <<>>

\* an error leaves the function
Raise(error) ==
    /\ pc' = "raised"
    /\ err' = error
    /\ UNCHANGED <<runVars, loopVars, subjectVars, result>>

Indexed(loaded, timing_index, person_index) ==
    IF loaded.err # "" THEN Raise(loaded.err)
    ELSE IF timing_index.err # "" THEN Raise(timing_index.err)
    ELSE IF person_index.err # "" THEN Raise(person_index.err)
    ELSE /\ node_types' = FilteredNodeTypes(node_types)
         /\ cfg' = Configured(cfg.suppressed, cfg.data_dictionary, loaded)
         /\ timings' = timing_index.v
         /\ persons' = person_index.v
         /\ pc' = "types"
         /\ UNCHANGED <<data, loopVars, subjectVars, err, result>>

Loaded(loaded) ==
    Indexed(loaded,
            get_timings_by_subject_id(data, loaded.number_fields),
            get_persons_by_person_id(data, loaded.number_fields))

\* the filter of node_types, load_field_type_lists() and the two indexes
Start ==
    /\ pc = "start"
    /\ Loaded(load_field_type_lists(cfg.data_dictionary, cfg.rules))
    /\ UNCHANGED <<flatVars, popVars, unitVars>>

\* 'continue' for a node type that is not in project_records
SkipNodeType ==
    /\ pc = "types"
    /\ project_num <= Len(data)
    /\ node_type_num <= Len(node_types)
    /\ node_types[node_type_num] \notin DOMAIN data[project_num]
    /\ node_type_num' = node_type_num + 1
    /\ UNCHANGED <<runVars, project_num, node_type_records, record_num, subjectVars,
                   pc, err, result>>
    /\ UNCHANGED <<flatVars, popVars, unitVars>>

Entered(records) ==
    IF records.err # "" THEN Raise(records.err)
    ELSE /\ node_type_records' = records.v
         /\ record_num' = 0
         /\ pc' = "records"
         /\ UNCHANGED <<runVars, project_num, node_type_num, subjectVars, err, result>>

\* node_type_records of a node type of the project: the records as they are or,
\* for survival_characteristic, flattened
EnterNodeType ==
    /\ pc = "types"
    /\ project_num <= Len(data)
    /\ node_type_num <= Len(node_types)
    /\ node_types[node_type_num] \in DOMAIN data[project_num]
    /\ Entered(IF node_types[node_type_num] # NODE_TYPE_SURVIVAL_CHARACTERISTIC
               THEN [err |-> "", v |-> data[project_num][node_types[node_type_num]]]
               ELSE sort_and_flatten_survival_characteristics(
                        data[project_num][node_types[node_type_num]]))
    /\ UNCHANGED <<flatVars, popVars, unitVars>>

Stored(made) ==
    IF made.err # "" THEN Raise(made.err)
    ELSE IF made.none
    THEN /\ problematic_records' = made.problematic
         /\ record_num' = record_num + 1
         /\ UNCHANGED <<runVars, project_num, node_type_num, node_type_records, subjects,
                        subject_keys, pc, err, result>>
    ELSE IF IsDuplicate(SubjectKey(made.v), subjects) THEN Raise(DuplicateSubject)
    ELSE /\ subjects' = Put(subjects, SubjectKey(made.v), made.v)
         /\ subject_keys' = Append(subject_keys, SubjectKey(made.v))
         /\ problematic_records' = made.problematic
         /\ record_num' = record_num + 1
         /\ UNCHANGED <<runVars, project_num, node_type_num, node_type_records, pc, err, result>>

\* one turn of the record loop for the node type subject
ProcessSubjectRecord ==
    /\ pc = "records"
    /\ record_num < Len(node_type_records)
    /\ node_types[node_type_num] = NODE_TYPE_SUBJECT
    /\ Stored(create_subject_record(cfg, node_type_records[record_num + 1], persons,
                                    timings, problematic_records))
    /\ UNCHANGED <<flatVars, popVars, unitVars>>

Attached(populated) ==
    IF populated.err # "" THEN Raise(populated.err)
    ELSE /\ subjects' = populated.subjects
         /\ problematic_records' = populated.problematic
         /\ record_num' = record_num + 1
         /\ UNCHANGED <<runVars, project_num, node_type_num, node_type_records, subject_keys,
                        pc, err, result>>

Processed(record) ==
    IF "subjects" \notin DOMAIN record.rel
    THEN /\ record_num' = record_num + 1
         /\ UNCHANGED <<runVars, project_num, node_type_num, node_type_records, subjectVars,
                        pc, err, result>>
    ELSE IF Len(record.rel["subjects"]) > 1
    THEN /\ problematic_records' =
                Append(problematic_records, Problematic("record", record, record))
         /\ record_num' = record_num + 1
         /\ UNCHANGED <<runVars, project_num, node_type_num, node_type_records, subjects,
                        subject_keys, pc, err, result>>
    ELSE Attached(populate_node_record(cfg, node_types[node_type_num], record, subjects,
                                       timings, problematic_records, FALSE))

\* one turn of the record loop for another node type
ProcessNodeRecord ==
    /\ pc = "records"
    /\ record_num < Len(node_type_records)
    /\ node_types[node_type_num] # NODE_TYPE_SUBJECT
    /\ Processed(node_type_records[record_num + 1])
    /\ UNCHANGED <<flatVars, popVars, unitVars>>

\* the record loop is over: the next node type
LeaveNodeType ==
    /\ pc = "records"
    /\ record_num = Len(node_type_records)
    /\ pc' = "types"
    /\ node_type_num' = node_type_num + 1
    /\ UNCHANGED <<runVars, project_num, node_type_records, record_num, subjectVars,
                   err, result>>
    /\ UNCHANGED <<flatVars, popVars, unitVars>>

\* the node type loop is over: the next project
NextProject ==
    /\ pc = "types"
    /\ project_num <= Len(data)
    /\ node_type_num > Len(node_types)
    /\ project_num' = project_num + 1
    /\ node_type_num' = 1
    /\ UNCHANGED <<runVars, node_type_records, record_num, subjectVars, pc, err, result>>
    /\ UNCHANGED <<flatVars, popVars, unitVars>>

\* return list(subjects.values())
Return ==
    /\ pc = "types"
    /\ project_num > Len(data)
    /\ result' = SubjectList(subjects, subject_keys)
    /\ pc' = "done"
    /\ UNCHANGED <<runVars, loopVars, subjectVars, err>>
    /\ UNCHANGED <<flatVars, popVars, unitVars>>

Next ==
    \/ Start
    \/ SkipNodeType
    \/ EnterNodeType
    \/ ProcessSubjectRecord
    \/ ProcessNodeRecord
    \/ LeaveNodeType
    \/ NextProject
    \/ Return

Spec == Init /\ [][Next]_vars

(***************************************************************************)
(* generate_subject_json under a suppression rule whose control field is   *)
(* of a sibling node type, for the two orders of the node types study and  *)
(* survival_characteristic.                                                *)
(***************************************************************************)
\* a rule of SUPPRESSED_FIELDS on study.treatment_arm with control field
\* survival_characteristic.lkss
SiblingRule(allowed, blocked) ==
    [key |-> <<"study", "treatment_arm">>,
     spec |-> [control_field |-> <<NODE_TYPE_SURVIVAL_CHARACTERISTIC, "lkss">>,
               allowed_control_field_values |-> allowed,
               blocked_control_field_values |-> blocked]]

\* the survival_characteristic records of subject S1 in the first project
OrderSurvivalLists ==
    LET Of(i, lkss) == ChildRecord(NODE_TYPE_SURVIVAL_CHARACTERISTIC, SurvivalIds[i],
                                   [lkss |-> lkss], [subjects |-> <<SubjectStub("S1")>>])
    IN  {<<>>, <<Of(1, Dead)>>, <<Of(1, Alive)>>, <<Of(1, Dead), Of(2, Alive)>>,
         <<Of(1, Alive), Of(2, Dead)>>}

\* the study records of subject S1 in the first project: none, or one with or
\* without a treatment_arm
OrderStudyLists ==
    {<<>>} \cup
    {<<ChildRecord("study", StudyIds[1], [study_id |-> Str(<<"x">>)] @@ arm,
                   [subjects |-> <<SubjectStub("S1")>>])>> :
        arm \in {<<>>, [treatment_arm |-> Arm]}}

\* subject S1 with its survival_characteristic and study records in the first
\* project; subject S2 or no record but the persons in the second
OrderData ==
    {<<ProjectDict(<<SubjectRecord(1, [submitter_id |-> "S1", persons |-> 0])>>,
                   survival_records, study_records),
       ProjectDict(second, <<>>, <<>>)>> :
        survival_records \in OrderSurvivalLists,
        study_records \in OrderStudyLists,
        second \in {<<>>, <<SubjectRecord(2, [submitter_id |-> "S2", persons |-> 0])>>}}

OrderNodeTypeLists ==
    {<<NODE_TYPE_SUBJECT, NODE_TYPE_SURVIVAL_CHARACTERISTIC, "study">>,
     <<NODE_TYPE_SUBJECT, "study", NODE_TYPE_SURVIVAL_CHARACTERISTIC>>}

InitOrder ==
    /\ FlatIdle
    /\ PopIdle
    /\ UnitIdle
    /\ data \in OrderData
    /\ node_types \in OrderNodeTypeLists
    /\ cfg \in {[suppressed |-> <<SiblingRule(lists[1], lists[2])>>,
                 data_dictionary |-> DataDictionary, rules |-> <<>>, number_fields |-> {}] :
                   lists \in {<<<<Dead>>, <<>>>>, <<<<>>, <<Dead>>>>}}
    /\ timings = <<>>
    /\ persons = <<>>
    /\ pc = "start"
    /\ err = ""
    /\ project_num = 1
    /\ node_type_num = 1
    /\ node_type_records = <<>>
    /\ record_num = 0
    /\ subjects = <<>>
    /\ subject_keys = <<>>
    /\ problematic_records = <<>>
    /\ result = <<>>

SpecOrder == InitOrder /\ [][Next]_vars

(***************************************************************************)
(* The index mapping.  A mapping element is a dict: "type" and, for a      *)
(* keyword, "fields", for a nested element, "properties".  A dict of       *)
(* elements is a function from names to elements; the order of its keys is *)
(* not modelled.  No two node types of a dictionary of the model have the  *)
(* same pluralized name.                                                   *)
(***************************************************************************)
\* get_es_index_mapping_elem(elem_type, elem_sub_type), "" for no sub type
get_es_index_mapping_elem(elem_type, elem_sub_type) ==
    IF elem_type = "keyword"
    THEN [err |-> "",
          v |-> [type |-> elem_type,
                 fields |-> [analyzed |->
                                [type |-> IF elem_sub_type # "" THEN elem_sub_type
                                          ELSE "text"]]]]
    ELSE IF elem_type = "nested"
    THEN [err |-> "", v |-> [type |-> elem_type, properties |-> <<>>]]
    ELSE IF elem_type # "float" THEN [err |-> "ValueError", v |-> <<>>]
    ELSE [err |-> "", v |-> [type |-> elem_type]]

\* get_es_index_mapping_elem_type_name(data_dict_field_props): 'keyword',
\* 'float', or "" for None
get_es_index_mapping_elem_type_name(data_dict_field_props) ==
    IF "enum" \in DOMAIN data_dict_field_props THEN "keyword"
    ELSE IF "type" \notin DOMAIN data_dict_field_props THEN ""
    ELSE IF TypeIs(data_dict_field_props, "number") THEN "float"
    ELSE IF TypeIs(data_dict_field_props, "array") \/ TypeIs(data_dict_field_props, "string")
    THEN "keyword"
    ELSE ""

\* the elements of the fields of a node type that have an element type name,
\* the fields to skip left out
MappedFields(properties, fields_to_skip) ==
    LET mapped == {field \in DOMAIN properties \ fields_to_skip :
                      get_es_index_mapping_elem_type_name(properties[field]) # ""}
    IN  [field \in mapped |->
            get_es_index_mapping_elem(
                get_es_index_mapping_elem_type_name(properties[field]), "").v]

\* get_es_index_mapping_timing_fields(): _timing_id and timing_type, then the
\* mapped fields of the timing node type
get_es_index_mapping_timing_fields(data_dictionary) ==
    IF \/ NODE_TYPE_TIMING \notin DOMAIN data_dictionary
       \/ "properties" \notin DOMAIN data_dictionary[NODE_TYPE_TIMING]
    THEN [err |-> "RuntimeError", v |-> <<>>]
    ELSE [err |-> "",
          v |-> MappedFields(data_dictionary[NODE_TYPE_TIMING]["properties"], {})
                @@ [_timing_id |-> get_es_index_mapping_elem("keyword", "").v,
                    timing_type |-> get_es_index_mapping_elem("keyword", "").v]]

NoTimingFieldsMapped == "RuntimeError: No timing fields mapped from data dictionary to ES index"

\* f'_{node_type}_id'
IdFieldName(node_type) == NameOf(Chars, <<"_">> \o Chars[node_type] \o <<"_", "i", "d">>)

\* the properties set for the node type subject besides its fields
SubjectElems ==
    [_molecular_analysis_count |-> get_es_index_mapping_elem("float", "").v,
     _study_count |-> get_es_index_mapping_elem("float", "").v,
     auth_resource_path |-> get_es_index_mapping_elem("keyword", "").v,
     biospecimen_status |-> get_es_index_mapping_elem("keyword", "").v,
     person_id |-> get_es_index_mapping_elem("keyword", "").v,
     project_id |-> get_es_index_mapping_elem("keyword", "").v,
     subject_submitter_id |-> get_es_index_mapping_elem("keyword", "").v,
     year_at_disease_phase |-> get_es_index_mapping_elem("float", "").v]

\* what one turn of the node type loop sets on target_elem: the id, the
\* properties of subject and of survival_characteristic, the mapped fields and,
\* with a timing association, the timing fields; a later one replaces an earlier
NodeTypeElems(data_dictionary, node_type, fields_to_skip, es_mapping_timing_fields) ==
    (IF has_timing_association(data_dictionary, node_type).v
     THEN es_mapping_timing_fields ELSE <<>>)
    @@ MappedFields(data_dictionary[node_type]["properties"], fields_to_skip)
    @@ (IF node_type = NODE_TYPE_SURVIVAL_CHARACTERISTIC
        THEN [lkss_obfuscated |-> get_es_index_mapping_elem("keyword", "").v] ELSE <<>>)
    @@ (IF node_type = NODE_TYPE_SUBJECT THEN SubjectElems ELSE <<>>)
    @@ (IdFieldName(node_type) :> get_es_index_mapping_elem("keyword", "").v)

\* es_mapping after the node type loop: subject, then person, in the root
\* properties, then a nested element per other node type
MappingOf(data_dictionary, scanned, fields_to_skip, es_mapping_timing_fields) ==
    LET Elems(node_type) ==
            IF node_type \in scanned
            THEN NodeTypeElems(data_dictionary, node_type, fields_to_skip,
                               es_mapping_timing_fields)
            ELSE <<>>
        others == scanned \ {NODE_TYPE_SUBJECT, NODE_TYPE_PERSON}
        plurals == {get_pluralized_node_type_name(node_type) : node_type \in others}
        TypeOf(plural) ==
            CHOOSE node_type \in others : get_pluralized_node_type_name(node_type) = plural
    IN  [mappings |->
            [properties |->
                [plural \in plurals |->
                    [get_es_index_mapping_elem("nested", "").v
                        EXCEPT !.properties = Elems(TypeOf(plural))]]
                @@ Elems(NODE_TYPE_PERSON) @@ Elems(NODE_TYPE_SUBJECT)]]

\* generate_es_index_mapping() after the timing fields are there
MappingWith(data_dictionary, fields_to_skip, timing_fields) ==
    IF timing_fields.err # "" THEN [err |-> timing_fields.err, v |-> <<>>]
    ELSE IF DOMAIN timing_fields.v \ fields_to_skip = {}
    THEN [err |-> NoTimingFieldsMapped, v |-> <<>>]
    ELSE IF {NODE_TYPE_SUBJECT, NODE_TYPE_PERSON} \ DOMAIN data_dictionary # {}
    THEN [err |-> "KeyError", v |-> <<>>]
    ELSE [err |-> "",
          v |-> MappingOf(data_dictionary, ScannedNodeTypes(data_dictionary), fields_to_skip,
                          [field \in DOMAIN timing_fields.v \ fields_to_skip |->
                              timing_fields.v[field]])]

\* generate_es_index_mapping(): the error it raises, or "" and the mapping
\* document; an empty data_dictionary cannot be loaded here
generate_es_index_mapping(data_dictionary) ==
    IF DOMAIN data_dictionary = {} THEN [err |-> "RuntimeError", v |-> <<>>]
    ELSE MappingWith(data_dictionary, {"type", "submitter_id"},
                     get_es_index_mapping_timing_fields(data_dictionary))

(***************************************************************************)
(* One call of one function on its own: create_subject_record,             *)
(* get_pluralized_node_type_name, generate_es_index_mapping or             *)
(* can_populate_node_record_field.  unit_fn names the function, unit_args  *)
(* holds its arguments and the module state it reads.                      *)
(***************************************************************************)
\* the project ids of the subject records of a call: without '-', with one,
\* with two, and with nothing before the one '-'
ProjectIds ==
    {Str(<<"p", "1">>), Str(<<"p", "-", "1">>), Str(<<"p", "-", "1", "-", "x">>),
     Str(<<"-", "1">>)}

\* a person record whose submitter id is not its node id
UnitPersonRecord ==
    [sys |-> [type |-> NODE_TYPE_PERSON, id |-> "q1", submitter_id |-> "P1"],
     f |-> [sex |-> Str(<<"F">>)], rel |-> <<>>]

\* the subject records of a call: with or without a project_id, linked to no
\* person, to the person q1, to the unknown person q2, or to both
UnitSubjectRecords ==
    {[sys |-> [type |-> NODE_TYPE_SUBJECT, id |-> "n1", submitter_id |-> "S1"],
      f |-> fields, rel |-> rel] :
        fields \in {<<>>} \cup {[project_id |-> project_id] : project_id \in ProjectIds},
        rel \in {<<>>} \cup
                {[persons |-> stubs] :
                    stubs \in {<<>>, <<Stub("q1", "P1")>>, <<Stub("q2", "P2")>>,
                               <<Stub("q1", "P1"), Stub("q2", "P2")>>}}}

\* the timing indexes of a call: empty, or one event of n1 with or without a year
UnitTimingIndexes ==
    {<<>>} \cup
    {[n1 |-> <<[_timing_id |-> IdValue("t1"), timing_id |-> IdValue("t1")] @@ year>>] :
        year \in {<<>>, [year_at_disease_phase |-> PyInt(<<1, 0, 1>>)]}}

InitCreateSubjectRecord ==
    /\ unit_fn = "create_subject_record"
    /\ unit_args \in
           {[cfg |-> Configuration(<<>>, <<>>), source_record |-> source_record,
             source_persons |->
                 get_persons_by_person_id(<<[person |-> <<UnitPersonRecord>>]>>, {}).v,
             source_timings |-> source_timings] :
               source_record \in UnitSubjectRecords, source_timings \in UnitTimingIndexes}

\* a call of create_subject_record(source_record, source_persons, source_timings, [])
CallCreateSubjectRecord ==
    /\ unit_pc = "start"
    /\ unit_fn = "create_subject_record"
    /\ unit_out' = create_subject_record(unit_args.cfg, unit_args.source_record,
                                         unit_args.source_persons,
                                         unit_args.source_timings, <<>>)
    /\ unit_pc' = "done"
    /\ UNCHANGED <<unit_fn, unit_args, flatVars, popVars, mainVars>>

\* the node type names of a call of get_pluralized_node_type_name
UnitNodeTypes ==
    {"molecular_analysis", "secondary_malignant_neoplasm", "submitted_unaligned_reads",
     "histology", "study", "y", "lab", "biospecimen", "tumor_assessment", "timing",
     NODE_TYPE_SUBJECT, NODE_TYPE_PERSON, NODE_TYPE_SURVIVAL_CHARACTERISTIC}

InitPluralized ==
    /\ unit_fn = "get_pluralized_node_type_name"
    /\ unit_args \in {[node_type |-> node_type] : node_type \in UnitNodeTypes}

\* a call of get_pluralized_node_type_name(node_type)
CallPluralized ==
    /\ unit_pc = "start"
    /\ unit_fn = "get_pluralized_node_type_name"
    /\ unit_out' = [err |-> "", v |-> get_pluralized_node_type_name(unit_args.node_type)]
    /\ unit_pc' = "done"
    /\ UNCHANGED <<unit_fn, unit_args, flatVars, popVars, mainVars>>

\* the timing node types of the dictionaries of a call: without properties,
\* with properties none of which can be mapped, with only the properties that
\* are skipped, and the one of DataDictionary
UnitTimingTypes ==
    {[links |-> <<[name |-> "subjects"]>>],
     [properties |-> <<>>, links |-> <<[name |-> "subjects"]>>],
     [properties |-> [note |-> <<>>, detail |-> "type" :> TypeStr("object")],
      links |-> <<[name |-> "subjects"]>>],
     [properties |-> [type |-> StringField, submitter_id |-> StringField],
      links |-> <<[name |-> "subjects"]>>],
     DataDictionary[NODE_TYPE_TIMING]}

\* the dictionaries of a call: empty, or DataDictionary with one of the timing
\* node types or none, with or without the node type person
UnitDictionaries ==
    LET without_timing == [nt \in DOMAIN DataDictionary \ {NODE_TYPE_TIMING} |->
                              DataDictionary[nt]]
        with_person == {without_timing} \cup
                       {(NODE_TYPE_TIMING :> timing) @@ without_timing :
                           timing \in UnitTimingTypes}
    IN  {<<>>} \cup with_person \cup
        {[nt \in DOMAIN d \ {NODE_TYPE_PERSON} |-> d[nt]] : d \in with_person}

InitEsIndexMapping ==
    /\ unit_fn = "generate_es_index_mapping"
    /\ unit_args \in {[data_dictionary |-> d] : d \in UnitDictionaries}

\* a call of generate_es_index_mapping()
CallEsIndexMapping ==
    /\ unit_pc = "start"
    /\ unit_fn = "generate_es_index_mapping"
    /\ unit_out' = generate_es_index_mapping(unit_args.data_dictionary)
    /\ unit_pc' = "done"
    /\ UNCHANGED <<unit_fn, unit_args, flatVars, popVars, mainVars>>

\* the keys of the suppression rules of a call
UnitRuleKeys ==
    {<<"study", "treatment_arm">>, <<"treatment_arm">>, <<"*", "treatment_arm">>,
     <<"study", "dose">>}

\* the allowed and the blocked values of a rule
UnitLists ==
    {<<<<ConsortiumA>>, <<>>>>, <<<<>>, <<ConsortiumA>>>>,
     <<<<ConsortiumA>>, <<Wildcard>>>>, <<<<Wildcard>>, <<Wildcard>>>>,
     <<<<ConsortiumA>>, <<ConsortiumA>>>>, <<<<ConsortiumB>>, <<ConsortiumA>>>>}

UnitRule(key, control_field, lists) ==
    [key |-> key,
     spec |-> [control_field |-> control_field,
               allowed_control_field_values |-> lists[1],
               blocked_control_field_values |-> lists[2]]]

\* SUPPRESSED_FIELDS in insertion order: no rule, one rule with a dotted or a
\* bare control field, or two rules with different keys, one with an allow list
\* and one with a block list
UnitSuppressionConfigs ==
    {<<>>}
    \cup {<<UnitRule(key, control_field, lists)>> :
             key \in UnitRuleKeys,
             control_field \in {<<"subject", "consortium">>, <<"consortium">>},
             lists \in UnitLists}
    \cup {<<UnitRule(keys[1], <<"subject", "consortium">>, lists[1]),
            UnitRule(keys[2], <<"subject", "consortium">>, lists[2])>> :
             keys \in {k \in UnitRuleKeys \X UnitRuleKeys : k[1] # k[2]},
             lists \in {l \in UnitLists \X UnitLists :
                           /\ l[1] # l[2]
                           /\ \A i \in 1..2 : l[i][1] = <<>> \/ l[i][2] = <<>>}}

\* the subject S1 of a call, with consortium 'A' or 'B' and with no child
\* record or with one study record of the same consortium
UnitSubjectMaps ==
    {"S1" :> [SubjectAggregate("n1", "S1", [consortium |-> consortium])
                 EXCEPT !.c = children] :
        consortium \in {ConsortiumA, ConsortiumB},
        children \in {<<>>, [studies |-> <<[consortium |-> ConsortiumA]>>]}}

InitCanPopulate ==
    /\ unit_fn = "can_populate_node_record_field"
    /\ unit_args \in
           [suppressed : UnitSuppressionConfigs,
            node_type : {"study"},
            field_name : {"treatment_arm", "dose"},
            source_record : {ChildRecord("study", "r1",
                                         [treatment_arm |-> Arm, consortium |-> ConsortiumA],
                                         [subjects |-> <<SubjectStub("S1")>>])},
            subjects : UnitSubjectMaps]

\* a call of can_populate_node_record_field(node_type, field_name, source_record,
\* subjects)
CallCanPopulate ==
    /\ unit_pc = "start"
    /\ unit_fn = "can_populate_node_record_field"
    /\ unit_out' = can_populate_node_record_field(unit_args.suppressed, unit_args.node_type,
                                                  unit_args.field_name,
                                                  unit_args.source_record, unit_args.subjects)
    /\ unit_pc' = "done"
    /\ UNCHANGED <<unit_fn, unit_args, flatVars, popVars, mainVars>>

\* the declarations of a field in the schemas of a call: nothing, an enum, an
\* enum with the type number, and the types number, array, string and object,
\* as a str or in a list
UnitFieldProperties ==
    {<<>>, EnumField, EnumField @@ NumberField, NumberField,
     "type" :> TypeList(<<"number", "null">>), "type" :> TypeStr("array"),
     "type" :> TypeList(<<"array", "null">>), StringField, "type" :> TypeStr("object")}

\* a schema: the node type subject with the reference field project_id and
\* the field x, a node type without properties, an internal node type and,
\* with_study, the node type study
UnitSchema(project_id, x, with_study) ==
    "_definitions" :> [properties |-> [x |-> NumberField]] @@
    "person" :> [links |-> <<>>] @@
    "subject" :> [properties |-> [project_id |-> project_id, x |-> x], links |-> <<>>] @@
    (IF with_study THEN "study" :> [properties |-> [y |-> NumberField], links |-> <<>>]
     ELSE <<>>)

\* the schema of the first load, and the one load_data_dictionary fetches next
InitLoadFieldTypeLists ==
    /\ unit_fn = "load_field_type_lists"
    /\ unit_args \in
           [data_dictionary :
                {UnitSchema(project_id, x, with_study) :
                    project_id \in {<<>>, StringField, NumberField},
                    x \in UnitFieldProperties, with_study \in BOOLEAN},
            next_dictionary :
                {UnitSchema(StringField, x, with_study) :
                    x \in UnitFieldProperties, with_study \in BOOLEAN}]

\* load_field_type_lists() on an empty node_type_fields_to_set
CallLoadFieldTypeLists ==
    /\ unit_pc = "start"
    /\ unit_fn = "load_field_type_lists"
    /\ unit_out' = load_field_type_lists(unit_args.data_dictionary, <<>>)
    /\ unit_pc' = "loaded"
    /\ UNCHANGED <<unit_fn, unit_args, flatVars, popVars, mainVars>>

\* load_data_dictionary(url), which replaces the content of data_dictionary,
\* and load_field_type_lists() again, in the same process
Reload ==
    /\ unit_pc = "loaded"
    /\ unit_fn = "load_field_type_lists"
    /\ unit_out' = load_field_type_lists(unit_args.next_dictionary,
                                         unit_out.node_type_fields_to_set)
    /\ unit_pc' = "done"
    /\ UNCHANGED <<unit_fn, unit_args, flatVars, popVars, mainVars>>

\* the schemas of a call of get_timings_by_subject_id: DataDictionary with the
\* field course declared by the node types timing and study as a string, as
\* a number or not at all
UnitCourseDeclarations == {<<>>, [course |-> StringField], [course |-> NumberField]}

UnitTimingSchemas ==
    {[nt \in DOMAIN DataDictionary |->
         IF nt = NODE_TYPE_TIMING
         THEN [DataDictionary[nt] EXCEPT !.properties = of_timing @@ @]
         ELSE IF nt = "study"
         THEN [DataDictionary[nt] EXCEPT !.properties = of_study @@ @]
         ELSE DataDictionary[nt]] :
        of_timing \in UnitCourseDeclarations, of_study \in UnitCourseDeclarations}

\* the fields of the timing record t1 of a call: a course 'A' or '2', or
\* none, and an age_at_disease_phase 0 or 10, or none
UnitTimingFields ==
    {course @@ age :
        course \in {<<>>, [course |-> Str(<<"A">>)], [course |-> NumStr(<<1, 0>>, <<>>)]},
        age \in {<<>>, [age_at_disease_phase |-> PyInt(<<>>)],
                 [age_at_disease_phase |-> PyInt(Ten)]}}

\* the timing records of a call: t1 in the first project, with no key
\* 'subjects', no subject, one subject or two; t2 of subject S1 in the
\* second project, or no record there
UnitTimingData ==
    {<<[timing |-> <<[TimingRecord("t1", fields, <<>>) EXCEPT !.rel = rel]>>],
       [timing |-> second]>> :
        fields \in UnitTimingFields,
        rel \in {<<>>, [subjects |-> <<>>], [subjects |-> <<SubjectStub("S1")>>],
                 [subjects |-> <<SubjectStub("S1"), SubjectStub("S2")>>]},
        second \in {<<>>, <<TimingRecord("t2", [timing_type |-> Str(<<"visit">>)],
                                         <<SubjectStub("S1")>>)>>}}

InitTimings ==
    /\ unit_fn = "get_timings_by_subject_id"
    /\ unit_args \in [data_dictionary : UnitTimingSchemas, data : UnitTimingData]

\* load_field_type_lists() and get_timings_by_subject_id(data), as
\* generate_subject_json calls them
CallTimings ==
    /\ unit_pc = "start"
    /\ unit_fn = "get_timings_by_subject_id"
    /\ unit_out' = TimingObjects(unit_args.data,
                                 load_field_type_lists(unit_args.data_dictionary,
                                                       <<>>).number_fields)
    /\ unit_pc' = "done"
    /\ UNCHANGED <<unit_fn, unit_args, flatVars, popVars, mainVars>>

\* a caller sets a field of one entry of the index in place
ChangeEntry ==
    /\ unit_pc = "done"
    /\ unit_fn = "get_timings_by_subject_id"
    /\ unit_out.err = ""
    /\ \E n \in DOMAIN unit_out.refs : \E i \in DOMAIN unit_out.refs[n] :
           unit_out' =
               [err |-> "", v |-> unit_out.v, refs |-> unit_out.refs,
                changed |-> <<n, i>>,
                heap |-> [unit_out.heap EXCEPT ![unit_out.refs[n][i]] =
                              Put(@, "timing_type", Str(<<"c", "h">>))]]
    /\ unit_pc' = "changed"
    /\ UNCHANGED <<unit_fn, unit_args, flatVars, popVars, mainVars>>

InitUnit ==
    /\ FlatIdle
    /\ PopIdle
    /\ MainIdle
    /\ unit_pc = "start"
    /\ unit_out = <<>>
    /\ \/ InitCreateSubjectRecord
       \/ InitPluralized
       \/ InitEsIndexMapping
       \/ InitCanPopulate
       \/ InitLoadFieldTypeLists
       \/ InitTimings

NextUnit ==
    \/ CallCreateSubjectRecord
    \/ CallPluralized
    \/ CallEsIndexMapping
    \/ CallCanPopulate
    \/ CallLoadFieldTypeLists
    \/ Reload
    \/ CallTimings
    \/ ChangeEntry

SpecUnit == InitUnit /\ [][NextUnit]_vars

(***************************************************************************)
(* Claims about the flattening (checked under SpecFlat).                   *)
(***************************************************************************)
\* the subject submitter ids the records of a list are associated with
SubjectIdsOf(records) ==
    UNION {{records[i].rel["subjects"][j]["submitter_id"] :
               j \in DOMAIN records[i].rel["subjects"]} : i \in DOMAIN records}

\* the records of a list associated with a subject
GroupOf(records, subject_id) ==
    {r \in Range(records) :
        \E j \in DOMAIN r.rel["subjects"] : r.rel["subjects"][j]["submitter_id"] = subject_id}

IsDead(r) == "lkss" \in DOMAIN r.f /\ r.f["lkss"] = Dead

HasKnownAge(r) == "age_at_lkss" \in DOMAIN r.f /\ IsNumber(r.f["age_at_lkss"])

\* r has the largest age_at_lkss among the records of the set rs
LargestAgeAmong(r, rs) ==
    \A other \in rs :
        HasKnownAge(other) =>
            HasKnownAge(r) /\ ~NumLess(r.f["age_at_lkss"], other.f["age_at_lkss"])

\* the flattening has returned a list
Flattened == flat_pc \in {"once", "twice"} /\ flat_out.err = ""

\* the record selected for a subject: one record per subject, in first-seen order
SelectedFor(subject_id) ==
    LET pairs == SubjectPairs(flat_in)
        keys == FirstSeen(pairs, {})
    IN  flat_out.v[CHOOSE i \in DOMAIN keys : keys[i] = subject_id]

\* C5: for every subject group, if at least one record of the group has lkss = 'Dead'
\* the selected record is the 'Dead' record with the largest age_at_lkss among the
\* group's 'Dead' records, even when a non-'Dead' record has a larger age_at_lkss;
\* otherwise it is the record with the largest age_at_lkss
C5_DeadThenLargestAge ==
    Flattened =>
        /\ Len(flat_out.v) = Cardinality(SubjectIdsOf(flat_in))
        /\ \A subject_id \in SubjectIdsOf(flat_in) :
              LET group == GroupOf(flat_in, subject_id)
                  dead == {r \in group : IsDead(r)}
                  selected == SelectedFor(subject_id)
              IN  /\ selected \in group
                  /\ dead # {} => selected \in dead /\ LargestAgeAmong(selected, dead)
                  /\ dead = {} => LargestAgeAmong(selected, group)

\* C5 witness: a 'Dead' record was selected over a non-'Dead' record of the same
\* subject with a larger age_at_lkss
C5_Witness ==
    /\ Flattened
    /\ \E subject_id \in SubjectIdsOf(flat_in) :
          /\ IsDead(SelectedFor(subject_id))
          /\ HasKnownAge(SelectedFor(subject_id))
          /\ \E r \in GroupOf(flat_in, subject_id) :
                /\ ~IsDead(r)
                /\ HasKnownAge(r)
                /\ NumLess(SelectedFor(subject_id).f["age_at_lkss"], r.f["age_at_lkss"])

\* a valid input of the flattening: every record has the expected type and exactly
\* one subject association, with a submitter id
ValidFlatInput(records) ==
    /\ FlattenValidation(records) = ""
    /\ \A i \in DOMAIN records : Len(records[i].rel["subjects"]) = 1

\* a valid input that holds exactly one record per subject
OneRecordPerSubject(records) ==
    /\ ValidFlatInput(records)
    /\ \A i, j \in DOMAIN records :
          records[i].rel["subjects"][1]["submitter_id"]
              = records[j].rel["subjects"][1]["submitter_id"] => i = j

\* C6: the flattening is idempotent: an input that already holds exactly one valid
\* record per subject is returned as it is, same records in the same order, and for
\* any valid input x that it accepts, flatten(flatten(x)) = flatten(x)
C6_Idempotent ==
    /\ flat_pc \in {"once", "twice"} /\ OneRecordPerSubject(flat_in)
           => flat_out = [err |-> "", v |-> flat_in]
    /\ flat_pc = "twice" /\ ValidFlatInput(flat_in) => flat_again = flat_out

\* C6 witness: an input with two records of one subject was flattened twice
C6_Witness ==
    /\ flat_pc = "twice"
    /\ ValidFlatInput(flat_in)
    /\ Len(flat_in) = 2
    /\ Len(flat_out.v) = 1

(***************************************************************************)
(* Claims about populate_node_record.                                      *)
(***************************************************************************)
\* the call returned a record
PopReturned == pop_pc \in {"done", "base"} /\ pop_out.err = "" /\ ~pop_out.none

\* the record of the call has the one subject stub S1, whose aggregate exists
OfSubjectS1 ==
    /\ "subjects" \in DOMAIN pop_record.rel
    /\ pop_record.rel["subjects"] = <<SubjectStub("S1")>>
    /\ "S1" \in DOMAIN pop_subjects

\* a study record with a treatment_arm, of subject S1, populated under one rule
\* on study.treatment_arm whose allow list is non-empty and has no wildcard
AllowListCase ==
    /\ pop_pc = "done"
    /\ pop_out.err = ""
    /\ pop_type = "study"
    /\ OfSubjectS1
    /\ Len(pop_cfg.suppressed) = 1
    /\ pop_cfg.suppressed[1].key = <<"study", "treatment_arm">>
    /\ pop_cfg.suppressed[1].spec["control_field"] = <<"subject", "consortium">>
    /\ pop_cfg.suppressed[1].spec["allowed_control_field_values"] # <<>>
    /\ Wildcard \notin Range(pop_cfg.suppressed[1].spec["allowed_control_field_values"])
    /\ Get(pop_record.f, "treatment_arm", None) # None

\* the consortium of the subject as the policy reads it: without the blanks
\* around it, and '' when the subject has none
ConsortiumRead ==
    Str(Strip(Get(pop_subjects["S1"].f, "consortium", Str(<<>>)).s))

\* C4: under a rule for field f of type T with control field c, a non-empty
\* allow list without a wildcard, and a record that has f and one resolving
\* subject, populate_node_record sets f on the output exactly when the value of
\* c of that subject is in the allow list.
C4_AllowListDecides ==
    AllowListCase =>
        (("treatment_arm" \in DOMAIN pop_out.v /\ pop_out.v["treatment_arm"] # None)
         <=> ConsortiumRead
             \in Range(pop_cfg.suppressed[1].spec["allowed_control_field_values"]))

\* C8: a field without a value in the source record (absent, or null) is in the
\* record populate_node_record returns, with the value null, when its rule has
\* unset_if_null, and is not a key of that record when its rule has not.
C8_UnsetIfNull ==
    PopReturned =>
        \A field \in DOMAIN pop_cfg.rules[pop_type] :
            Get(pop_record.f, field, None) = None =>
                IF pop_cfg.rules[pop_type][field].unset_if_null
                THEN field \in DOMAIN pop_out.v /\ pop_out.v[field] = None
                ELSE field \notin DOMAIN pop_out.v

\* a survival_characteristic record without age_at_lkss and without lkss
C8_Witness ==
    /\ PopReturned
    /\ pop_pc = "done"
    /\ pop_type = NODE_TYPE_SURVIVAL_CHARACTERISTIC
    /\ DOMAIN pop_record.f = {}
    /\ pop_cfg.rules[pop_type]["age_at_lkss"].unset_if_null
    /\ ~pop_cfg.rules[pop_type]["lkss"].unset_if_null
    /\ DOMAIN pop_out.v = {"age_at_lkss"}

\* C9: a numeric field whose source value is a number, or a str that denotes
\* one, is a number in the output record and equals the number of the source:
\* an int for an integer, however large.
C9_NumberKept ==
    (/\ PopReturned
     /\ pop_type = NODE_TYPE_SURVIVAL_CHARACTERISTIC
     /\ pop_cfg.rules[pop_type]["age_at_lkss"].is_number
     /\ "age_at_lkss" \in DOMAIN pop_record.f
     /\ DenotesNumber(pop_record.f["age_at_lkss"]))
    => /\ "age_at_lkss" \in DOMAIN pop_out.v
       /\ IsNumber(pop_out.v["age_at_lkss"])
       /\ pop_out.v["age_at_lkss"].ip = pop_record.f["age_at_lkss"].ip
       /\ pop_out.v["age_at_lkss"].fp = pop_record.f["age_at_lkss"].fp
       /\ (pop_record.f["age_at_lkss"].fp = <<>> => pop_out.v["age_at_lkss"].k = "int")

\* the timing events of subject S1 that the one timing stub of the record names
EventsNamed ==
    {i \in DOMAIN pop_timings["n1"] :
        pop_timings["n1"][i]["_timing_id"] = IdValue(pop_record.rel["timings"][1]["node_id"])}

\* a histology record of subject S1 with one timing stub, which names exactly one
\* timing event of the subject
SingleTimingCase ==
    /\ pop_pc = "done"
    /\ pop_out.err = ""
    /\ pop_type = "histology"
    /\ OfSubjectS1
    /\ "timings" \in DOMAIN pop_record.rel
    /\ Len(pop_record.rel["timings"]) = 1
    /\ "n1" \in DOMAIN pop_timings
    /\ Cardinality(EventsNamed) = 1

TheEvent == pop_timings["n1"][CHOOSE i \in EventsNamed : TRUE]

\* C10: for a record with one resolving subject stub and one timing stub that
\* matches exactly one timing event of that subject, populate_node_record
\* copies every non-empty timing field of the event to the output record and
\* appends the output record once to the subject's collection of the node type.
C10_SingleTiming ==
    SingleTimingCase =>
        /\ \A x \in Range(TimingFields) :
               x \in DOMAIN TheEvent /\ Truthy(TheEvent[x]) =>
                   x \in DOMAIN pop_out.v /\ pop_out.v[x] = TheEvent[x]
        /\ "histologies" \in DOMAIN pop_out.subjects["S1"].c
        /\ pop_out.subjects["S1"].c["histologies"]
               = Append(Get(pop_subjects["S1"].c, "histologies", <<>>), pop_out.v)

\* the event t2, with its year_at_disease_phase, copied to the first histology
\* record of the subject
C10_Witness ==
    /\ SingleTimingCase
    /\ "histologies" \notin DOMAIN pop_subjects["S1"].c
    /\ "year_at_disease_phase" \in DOMAIN TheEvent
    /\ "year_at_disease_phase" \in DOMAIN pop_out.v
    /\ Len(pop_out.subjects["S1"].c["histologies"]) = 1

(***************************************************************************)
(* Claims about generate_subject_json (checked under Spec).                *)
(***************************************************************************)
\* the subject source records of the input, over all projects
InputSubjectRecords ==
    UNION {Range(Get(data[p], NODE_TYPE_SUBJECT, <<>>)) : p \in DOMAIN data}

\* a subject source record that is linked to at most one person
AtMostOnePerson(record) == Len(Get(record.rel, "persons", <<>>)) <= 1

SubmitterIdsOf(records) == {r.sys["submitter_id"] : r \in records}

SubjectConfigured == \E i \in DOMAIN node_types : node_types[i] = NODE_TYPE_SUBJECT

\* C1 as the specification states it: the number of subject documents returned
\* is the number of distinct submitter ids among the subject records of the input.
C1_OneDocumentPerSubmitterId ==
    pc = "done" /\ SubjectConfigured =>
        Len(result) = Cardinality(SubmitterIdsOf(InputSubjectRecords))

\* C1, amended: the number of subject documents returned is the number of
\* distinct submitter ids among the subject records of the input that are linked
\* to at most one person.
C1_OneDocumentPerKeptSubmitterId ==
    pc = "done" /\ SubjectConfigured =>
        Len(result) =
            Cardinality(SubmitterIdsOf({r \in InputSubjectRecords : AtMostOnePerson(r)}))

\* a run that returns one document for two subjects, one of them linked to two persons
C1_Witness ==
    /\ pc = "done"
    /\ Len(result) = 1
    /\ Cardinality(SubmitterIdsOf(InputSubjectRecords)) = 2
    /\ \E r \in InputSubjectRecords : ~AtMostOnePerson(r)

\* C2: every entry of the subject map is stored under the submitter id of its
\* own subject, the map has one entry per key, and no two documents returned
\* have the same submitter id.
C2_KeyedBySubmitterId ==
    /\ \A k \in DOMAIN subjects : subjects[k].f["subject_submitter_id"] = IdValue(k)
    /\ Range(subject_keys) = DOMAIN subjects
    /\ \A i, j \in DOMAIN subject_keys : subject_keys[i] = subject_keys[j] => i = j
    /\ \A i, j \in DOMAIN result :
           result[i].f["subject_submitter_id"] = result[j].f["subject_submitter_id"] => i = j

\* two documents are returned
C2_Witness == pc = "done" /\ Len(result) = 2 /\ DOMAIN subjects = {"S1", "S2"}

\* two distinct subject source records with the same submitter id
DuplicatePairs(records) ==
    {pair \in records \X records :
        pair[1] # pair[2] /\ pair[1].sys["submitter_id"] = pair[2].sys["submitter_id"]}

\* C3 as the specification states it: with two distinct subject source records
\* of the same submitter id in the input, the run does not return.
C3_DuplicateNeverReturns ==
    pc = "done" /\ SubjectConfigured => DuplicatePairs(InputSubjectRecords) = {}

\* C3, amended: with two distinct subject source records of the same submitter
\* id in the input, each linked to at most one person, the run does not return a
\* list; and the duplicate error is raised only for such an input.
C3_KeptDuplicateNeverReturns ==
    /\ pc = "done" /\ SubjectConfigured =>
           DuplicatePairs({r \in InputSubjectRecords : AtMostOnePerson(r)}) = {}
    /\ pc = "raised" /\ err = DuplicateSubject =>
           DuplicatePairs({r \in InputSubjectRecords : AtMostOnePerson(r)}) # {}

\* the duplicate error raised for two subject records of two projects
C3_Witness ==
    /\ pc = "raised"
    /\ err = DuplicateSubject
    /\ project_num = 2
    /\ \A p \in DOMAIN data : Len(Get(data[p], NODE_TYPE_SUBJECT, <<>>)) = 1

RECURSIVE BeforeFirstDash(_)
BeforeFirstDash(chars) ==
    IF chars = <<>> \/ chars[1] = "-" THEN <<>>
    ELSE <<chars[1]>> \o BeforeFirstDash(Tail(chars))

AfterFirstDash(chars) ==
    SubSeq(chars, Len(BeforeFirstDash(chars)) + 2, Len(chars))

\* create_subject_record was called on a subject record linked to exactly one
\* person, of the person index, with a project_id that contains a '-'
OnePersonCase ==
    /\ unit_fn = "create_subject_record"
    /\ unit_pc = "done"
    /\ "persons" \in DOMAIN unit_args.source_record.rel
    /\ Len(unit_args.source_record.rel["persons"]) = 1
    /\ unit_args.source_record.rel["persons"][1]["node_id"] \in DOMAIN unit_args.source_persons
    /\ "project_id" \in DOMAIN unit_args.source_record.f
    /\ "-" \in Range(unit_args.source_record.f["project_id"].s)

\* C11: for a subject record linked to exactly one person and a project_id
\* with at least one '-', create_subject_record sets auth_resource_path to
\* /programs/{program}/projects/{project}/persons/{person submitter id}/subjects/
\* {subject submitter id}, program and project being the parts of project_id
\* before and after its first '-'.
C11_AuthResourcePath ==
    OnePersonCase =>
        /\ unit_out.err = ""
        /\ ~unit_out.none
        /\ "auth_resource_path" \in DOMAIN unit_out.v.f
        /\ unit_out.v.f["auth_resource_path"] =
               Str(<<"/programs/">>
                   \o BeforeFirstDash(unit_args.source_record.f["project_id"].s)
                   \o <<"/projects/">>
                   \o AfterFirstDash(unit_args.source_record.f["project_id"].s)
                   \o <<"/persons/", "P1", "/subjects/", "S1">>)

\* C11, for the project ids with exactly one '-': the path is set as stated
C11_OneDashPath ==
    OnePersonCase /\ Len(ProjectIdParts(unit_args.source_record.f["project_id"])) = 2
        => C11_AuthResourcePath

\* get_pluralized_node_type_name was called
PluralizedCase == unit_fn = "get_pluralized_node_type_name" /\ unit_pc = "done"

\* C15: get_pluralized_node_type_name maps molecular_analysis,
\* secondary_malignant_neoplasm and submitted_unaligned_reads to themselves,
\* every other name ending in 'y' to the name with 'ies' for the 'y', and every
\* other name to the name followed by 's'; histology gives histologies, study
\* gives studies, lab gives labs.
C15_Pluralized ==
    PluralizedCase =>
        LET name == unit_args.node_type
            chars == Chars[name]
        IN  /\ unit_out.err = ""
            /\ IF name \in {"molecular_analysis", "secondary_malignant_neoplasm",
                            "submitted_unaligned_reads"}
               THEN unit_out.v = name
               ELSE IF chars[Len(chars)] = "y"
               THEN Chars[unit_out.v] = SubSeq(chars, 1, Len(chars) - 1) \o <<"i", "e", "s">>
               ELSE Chars[unit_out.v] = chars \o <<"s">>
            /\ name = "histology" => unit_out.v = "histologies"
            /\ name = "study" => unit_out.v = "studies"
            /\ name = "lab" => unit_out.v = "labs"

\* lab was pluralized
C15_Witness == PluralizedCase /\ unit_args.node_type = "lab" /\ unit_out.v = "labs"

\* generate_es_index_mapping was called on a dictionary whose timing node type
\* has properties, none of them with an enum or a number, string or array type
NoMappableTimingField ==
    /\ unit_fn = "generate_es_index_mapping"
    /\ unit_pc = "done"
    /\ NODE_TYPE_TIMING \in DOMAIN unit_args.data_dictionary
    /\ "properties" \in DOMAIN unit_args.data_dictionary[NODE_TYPE_TIMING]
    /\ \A field \in DOMAIN unit_args.data_dictionary[NODE_TYPE_TIMING]["properties"] :
           LET field_properties ==
                   unit_args.data_dictionary[NODE_TYPE_TIMING]["properties"][field]
           IN  /\ "enum" \notin DOMAIN field_properties
               /\ \A t \in {"number", "string", "array"} : ~TypeIs(field_properties, t)

\* C16: generate_es_index_mapping fails with the no-timing-fields-mapped error
\* whenever the timing node type yields no mappable field (stated for the
\* dictionaries that have the node types subject and person, without which the
\* call fails with a KeyError at line 835).
C16_NoTimingFieldsMapped ==
    NoMappableTimingField /\ NODE_TYPE_PERSON \in DOMAIN unit_args.data_dictionary
        => unit_out.err = NoTimingFieldsMapped

\* the error of line 825 is raised in no call
C16_ErrorNeverRaised ==
    unit_fn = "generate_es_index_mapping" /\ unit_pc = "done"
        => unit_out.err # NoTimingFieldsMapped

\* can_populate_node_record_field was called
CanPopulateCalled == unit_fn = "can_populate_node_record_field" /\ unit_pc = "done"

\* the keys a rule for the field may have, in the order of the lookup
LookupOrder(node_type, field_name) ==
    <<<<node_type, field_name>>, <<field_name>>, <<"*", field_name>>>>

\* the positions of the lookup order at which a rule of suppressed has the key
Matching(suppressed, node_type, field_name) ==
    {n \in 1..3 : LookupOrder(node_type, field_name)[n] \in RuleKeys(suppressed)}

\* the rule of suppressed the lookup order finds first
MatchedRule(suppressed, node_type, field_name) ==
    LET matching == Matching(suppressed, node_type, field_name)
        first == CHOOSE n \in matching : \A m \in matching : n <= m
    IN  suppressed[CHOOSE i \in DOMAIN suppressed :
                       suppressed[i].key = LookupOrder(node_type, field_name)[first]]

\* the answer of the rule the lookup order finds, allowed when it finds none
AnswerByLookup(suppressed, node_type, field_name, source_record, subject_map) ==
    IF Matching(suppressed, node_type, field_name) = {} THEN [err |-> "", v |-> TRUE]
    ELSE LET rule == MatchedRule(suppressed, node_type, field_name)
         IN  RuleAnswer(rule.key, rule.spec, node_type, field_name, source_record,
                        Get(source_record.rel, "subjects", <<>>), subject_map)

\* C17: with one or more rules configured, can_populate_node_record_field
\* answers as the rule whose key matches the field (exact, then bare, then
\* wildcard key) answers, whatever other rules there are and in whatever order,
\* and allows when no key matches.
C17_MatchedRuleDecides ==
    CanPopulateCalled /\ unit_args.suppressed # <<>>
        => unit_out = AnswerByLookup(unit_args.suppressed, unit_args.node_type,
                                     unit_args.field_name, unit_args.source_record,
                                     unit_args.subjects)

\* with one rule configured the matched rule is the one evaluated
C17_SingleRuleDecides ==
    CanPopulateCalled /\ Len(unit_args.suppressed) = 1
        => unit_out = AnswerByLookup(unit_args.suppressed, unit_args.node_type,
                                     unit_args.field_name, unit_args.source_record,
                                     unit_args.subjects)

\* a call under one rule that matches the field, has no wildcard in its lists
\* and has the control field control
OneRuleCase(control) ==
    /\ CanPopulateCalled
    /\ Len(unit_args.suppressed) = 1
    /\ Matching(unit_args.suppressed, unit_args.node_type, unit_args.field_name) # {}
    /\ unit_args.suppressed[1].spec["control_field"] = control

\* every record of the call has the value for the field consortium: the source
\* record, the subject and the subject's child records
AllConsortiumIs(value) ==
    /\ unit_args.source_record.f["consortium"] = value
    /\ \A id \in DOMAIN unit_args.subjects :
           /\ unit_args.subjects[id].f["consortium"] = value
           /\ \A name \in DOMAIN unit_args.subjects[id].c :
                  \A i \in DOMAIN unit_args.subjects[id].c[name] :
                      unit_args.subjects[id].c[name][i]["consortium"] = value

\* a call under one matching rule with the control field control that allows
\* 'A' and blocks nothing, on records that all have consortium 'A'
AllowedConsortiumCase(control) ==
    /\ OneRuleCase(control)
    /\ unit_args.suppressed[1].spec["allowed_control_field_values"] = <<ConsortiumA>>
    /\ unit_args.suppressed[1].spec["blocked_control_field_values"] = <<>>
    /\ AllConsortiumIs(ConsortiumA)

\* C18: under a rule whose control_field is the bare name consortium, the
\* values compared with the lists are the values of the field consortium: when
\* every record has consortium 'A' and the rule allows 'A' and blocks nothing,
\* the field may be populated.
C18_BareControlField ==
    AllowedConsortiumCase(<<"consortium">>) => unit_out = [err |-> "", v |-> TRUE]

\* the same under the dotted control field subject.consortium
C18_DottedControlField ==
    AllowedConsortiumCase(<<"subject", "consortium">>) => unit_out = [err |-> "", v |-> TRUE]

\* the stripped consortium of the subjects of the stubs of the source record
UnitControlValues ==
    {StripValue(unit_args.subjects[stub["submitter_id"]].f["consortium"]).v :
        stub \in Range(unit_args.source_record.rel["subjects"])}

\* a call under one matching rule with the control field subject.consortium, a
\* non-empty allow list and a non-empty block list
BothListsCase ==
    /\ OneRuleCase(<<"subject", "consortium">>)
    /\ unit_args.suppressed[1].spec["allowed_control_field_values"] # <<>>
    /\ unit_args.suppressed[1].spec["blocked_control_field_values"] # <<>>

\* the answer the allow list of the rule alone gives
AllowListAnswer ==
    LET allowed_values == Range(unit_args.suppressed[1].spec["allowed_control_field_values"])
    IN  [err |-> "",
         v |-> Wildcard \in allowed_values \/ UnitControlValues \cap allowed_values # {}]

\* C19: under a matched rule with a non-empty allow list and a non-empty block
\* list the allow list alone decides: the field may be populated iff the allow
\* list holds '*' or one of the control values, whatever the block list holds.
C19_AllowListAlone == BothListsCase => unit_out = AllowListAnswer

\* the same for the rules without '*' in the block list
C19_AllowListAloneWithoutBlockedWildcard ==
    (BothListsCase /\ Wildcard \notin
         Range(unit_args.suppressed[1].spec["blocked_control_field_values"]))
        => unit_out = AllowListAnswer

(***************************************************************************)
(* More claims about the flattening (checked under SpecFlat).              *)
(***************************************************************************)
\* a record of another type, or without a type
WrongType(r) == "type" \notin DOMAIN r.sys \/ r.sys["type"] # NODE_TYPE_SURVIVAL_CHARACTERISTIC

\* a record with no 'subjects' association, or an empty one
NoSubjects(r) == "subjects" \notin DOMAIN r.rel \/ r.rel["subjects"] = <<>>

\* a record with more than one subject association
SeveralSubjects(r) == "subjects" \in DOMAIN r.rel /\ Len(r.rel["subjects"]) > 1

\* C12: sort_and_flatten_survival_characteristics raises, and returns no list,
\* whenever a record of the input has another type, no or an empty 'subjects'
\* association, or more than one subject association.
C12_InvalidInputRaises ==
    (/\ flat_pc # "start"
     /\ \E i \in DOMAIN flat_in :
           WrongType(flat_in[i]) \/ NoSubjects(flat_in[i]) \/ SeveralSubjects(flat_in[i]))
    => flat_out.err # ""

\* C12 without its last case: a record of another type, or with no or an empty
\* 'subjects' association, makes the flattening raise
C12_WrongTypeOrNoSubjectsRaises ==
    (/\ flat_pc # "start"
     /\ \E i \in DOMAIN flat_in : WrongType(flat_in[i]) \/ NoSubjects(flat_in[i]))
    => flat_out.err # ""

\* the groups of the input by subject, each in the order the sort leaves it
OrderedGroups ==
    LET pairs == SubjectPairs(flat_in)
    IN  {SortedDescending(SubjectGroup(pairs, subject_id)) :
            subject_id \in SubjectIdsOf(flat_in)}

\* records with a known age first, by descending age
KnownAgesFirstDescending(ordered) ==
    \A i, j \in DOMAIN ordered :
        i < j =>
            /\ HasKnownAge(ordered[j]) => HasKnownAge(ordered[i])
            /\ HasKnownAge(ordered[i]) /\ HasKnownAge(ordered[j])
                   => ~NumLess(ordered[i].f["age_at_lkss"], ordered[j].f["age_at_lkss"])

\* a group holds a record with a known age and a record with a null age
MixesKnownAndNull(records) ==
    \E subject_id \in SubjectIdsOf(records) :
        /\ \E r \in GroupOf(records, subject_id) : HasKnownAge(r)
        /\ \E r \in GroupOf(records, subject_id) :
               "age_at_lkss" \in DOMAIN r.f /\ r.f["age_at_lkss"] = None

\* C20: the sort of a subject group does not fail on a valid input, whatever
\* mix of known, absent and null age_at_lkss the group has, and it puts the
\* records with a known age before the others, largest age first.
C20_KnownAgesFirst ==
    /\ flat_pc # "start" /\ ValidFlatInput(flat_in) => flat_out.err = ""
    /\ Flattened /\ ValidFlatInput(flat_in)
           => \A ordered \in OrderedGroups : KnownAgesFirstDescending(ordered)

\* the same for the inputs without a group that has a known and a null age
C20_KnownAgesFirstWithoutNull ==
    /\ flat_pc # "start" /\ ValidFlatInput(flat_in) /\ ~MixesKnownAndNull(flat_in)
           => flat_out.err = ""
    /\ Flattened /\ ValidFlatInput(flat_in)
           => \A ordered \in OrderedGroups : KnownAgesFirstDescending(ordered)

(***************************************************************************)
(* More claims about generate_subject_json (checked under Spec).           *)
(***************************************************************************)
\* the study source records of the input, over all projects
InputStudyRecords ==
    UNION {Range(Get(data[p], "study", <<>>)) : p \in DOMAIN data}

StudyConfigured == \E i \in DOMAIN node_types : node_types[i] = "study"

\* the output record of a source record is in a collection of some subject
AttachedSomewhere(record) ==
    \E k \in DOMAIN subjects : \E name \in DOMAIN subjects[k].c :
        \E i \in DOMAIN subjects[k].c[name] :
            subjects[k].c[name][i] = [study_id |-> record.f["study_id"]]

\* the record was added to problematic_records
RecordedAsProblematic(record) ==
    \E i \in DOMAIN problematic_records : problematic_records[i].of = record.sys["id"]

\* C13: a non-subject record with no 'subjects' association, an empty one, or
\* more than one subject stub is attached to no subject document, is added to
\* the problematic records, and does not make the run raise.
C13_NoSingleSubjectIsProblematic ==
    /\ pc = "done" /\ StudyConfigured =>
           \A r \in InputStudyRecords :
               NoSubjects(r) \/ SeveralSubjects(r) =>
                   ~AttachedSomewhere(r) /\ RecordedAsProblematic(r)
    /\ pc = "raised" => err = DuplicateSubject

\* C13 for the records with more than one subject stub, and, for the others,
\* without the problematic records: none of them is attached, and none makes
\* the run raise
C13_SeveralSubjectsIsProblematic ==
    /\ pc = "done" /\ StudyConfigured =>
           \A r \in InputStudyRecords :
               /\ NoSubjects(r) \/ SeveralSubjects(r) => ~AttachedSomewhere(r)
               /\ SeveralSubjects(r) => RecordedAsProblematic(r)
    /\ pc = "raised" => err = DuplicateSubject

(***************************************************************************)
(* More claims about populate_node_record (checked under SpecPop).         *)
(***************************************************************************)
\* every value of the record for a number field denotes a number
NumbersDenoted ==
    \A field \in DOMAIN pop_record.f \cap DOMAIN pop_cfg.rules[pop_type] :
        pop_cfg.rules[pop_type][field].is_number /\ pop_record.f[field] # None
            => DenotesNumber(pop_record.f[field])

\* a full call on a record whose one subject stub names a submitter id that is
\* not in the subject map, and whose fields can be coerced
UnresolvedStubCase ==
    /\ pop_pc = "done"
    /\ "subjects" \in DOMAIN pop_record.rel
    /\ Len(pop_record.rel["subjects"]) = 1
    /\ pop_record.rel["subjects"][1]["submitter_id"] \notin DOMAIN pop_subjects
    /\ NumbersDenoted

\* the call did not raise, recorded the record as problematic and attached it to
\* no subject
DroppedAsProblematic ==
    /\ pop_out.err = ""
    /\ \E i \in DOMAIN pop_out.problematic : pop_out.problematic[i].of = pop_record.sys["id"]
    /\ pop_out.subjects = pop_subjects

\* C14: for a record whose subject stub names a submitter id that is not in the
\* subject map, under any suppression configuration, populate_node_record does
\* not raise: it adds the record to the problematic records and attaches it to
\* no subject.
C14_UnresolvedSubjectIsProblematic == UnresolvedStubCase => DroppedAsProblematic

\* C14 where no suppression rule is configured
C14_UnresolvedWithoutRules ==
    UnresolvedStubCase /\ pop_cfg.suppressed = <<>> => DroppedAsProblematic

(***************************************************************************)
(* Claims about the timing stubs of a record (checked under SpecPop).      *)
(***************************************************************************)
\* a histology record of the existing subject S1 was populated, and the timing
\* index has no entry for the subject's node id
NoTimingIndexEntryCase ==
    /\ pop_pc = "done"
    /\ pop_type = "histology"
    /\ has_timing_association(pop_cfg.data_dictionary, pop_type).v
    /\ OfSubjectS1
    /\ "n1" \notin DOMAIN pop_timings

\* the output record carries no timing field and is the last record of the
\* subject's collection of histologies
AppendedWithoutTimingFields ==
    /\ pop_out.err = ""
    /\ DOMAIN pop_out.v \cap Range(TimingFields) = {}
    /\ "histologies" \in DOMAIN pop_out.subjects["S1"].c
    /\ pop_out.subjects["S1"].c["histologies"]
           = Append(Get(pop_subjects["S1"].c, "histologies", <<>>), pop_out.v)

\* C21: for a record of a node type with a timing link whose subject exists
\* but has no entry in the timing index, populate_node_record does not raise,
\* whether the record's 'timings' list is absent, empty or holds one stub, and
\* appends the output record, without timing fields, to the subject's collection.
C21_NoTimingIndexEntry ==
    (NoTimingIndexEntryCase /\ Len(Get(pop_record.rel, "timings", <<>>)) <= 1)
        => AppendedWithoutTimingFields

\* the same for the records without the key 'timings'
C21_NoTimingsKey ==
    (NoTimingIndexEntryCase /\ "timings" \notin DOMAIN pop_record.rel)
        => AppendedWithoutTimingFields

\* a histology record of the existing subject S1 with more than one timing
\* stub was populated, and one of the stubs names exactly one timing event of
\* the subject
SeveralTimingsCase ==
    /\ pop_pc = "done"
    /\ pop_type = "histology"
    /\ OfSubjectS1
    /\ "n1" \in DOMAIN pop_timings
    /\ Len(Get(pop_record.rel, "timings", <<>>)) > 1
    /\ \E k \in DOMAIN pop_record.rel["timings"] :
           find_record_by_id(IdValue(pop_record.rel["timings"][k]["node_id"]),
                             "_timing_id", pop_timings["n1"]) # <<>>

\* the timing event of the first timing stub of the record that resolves
FirstResolvingEvent ==
    LET resolving == {k \in DOMAIN pop_record.rel["timings"] :
                         find_record_by_id(IdValue(pop_record.rel["timings"][k]["node_id"]),
                                           "_timing_id", pop_timings["n1"]) # <<>>}
        first == CHOOSE k \in resolving : \A other \in resolving : k <= other
    IN  find_record_by_id(IdValue(pop_record.rel["timings"][first]["node_id"]),
                          "_timing_id", pop_timings["n1"])[1]

\* the source record was added to the problematic records and the output
\* record was appended to the subject's collection
FlaggedAndAppended ==
    /\ pop_out.err = ""
    /\ \E i \in DOMAIN pop_out.problematic : pop_out.problematic[i].rec = pop_record
    /\ "histologies" \in DOMAIN pop_out.subjects["S1"].c
    /\ pop_out.subjects["S1"].c["histologies"]
           = Append(Get(pop_subjects["S1"].c, "histologies", <<>>), pop_out.v)

\* C22: for a record with more than one timing stub, populate_node_record adds
\* the record to the problematic records, still sets on the output record the
\* timing fields of the first timing stub that resolves, and appends the output
\* record to the subject's collection.
C22_FirstResolvingTimingUsed ==
    SeveralTimingsCase =>
        /\ FlaggedAndAppended
        /\ \A x \in Range(TimingFields) :
               x \in DOMAIN FirstResolvingEvent /\ Truthy(FirstResolvingEvent[x]) =>
                   x \in DOMAIN pop_out.v /\ pop_out.v[x] = FirstResolvingEvent[x]

\* the record is flagged and appended, with no timing field at all
C22_FlaggedWithoutTimingFields ==
    SeveralTimingsCase =>
        FlaggedAndAppended /\ DOMAIN pop_out.v \cap Range(TimingFields) = {}

(***************************************************************************)
(* Claims about the order of generate_subject_json (checked under Spec).   *)
(***************************************************************************)
\* the next turn of the record loop calls populate_node_record
AboutToPopulate ==
    /\ pc = "records"
    /\ record_num < Len(node_type_records)
    /\ node_types[node_type_num] # NODE_TYPE_SUBJECT
    /\ "subjects" \in DOMAIN node_type_records[record_num + 1].rel
    /\ Len(node_type_records[record_num + 1].rel["subjects"]) <= 1

\* the submitter ids of the subject stubs of the record of the next turn
ReferencedSubjects ==
    {stub["submitter_id"] : stub \in Range(node_type_records[record_num + 1].rel["subjects"])}

\* the subject source records of the projects up to project p that
\* create_subject_record accepts
KeptSubjectRecordsUpTo(p) ==
    UNION {{r \in Range(Get(data[q], NODE_TYPE_SUBJECT, <<>>)) : AtMostOnePerson(r)} :
              q \in {q \in DOMAIN data : q <= p}}

\* C23: in every run, for any order of the configured node types and any
\* number of projects, when populate_node_record is called for a record, the
\* aggregate of every subject record of the input that the record references
\* has been created (stated for the subject records linked to at most one
\* person, the ones for which an aggregate is created at all).
C23_SubjectsExistBeforeDependents ==
    AboutToPopulate =>
        \A r \in KeptSubjectRecordsUpTo(Len(data)) :
            r.sys["submitter_id"] \in ReferencedSubjects =>
                r.sys["submitter_id"] \in DOMAIN subjects

\* the same when subject is the first node type, for the subject records of
\* the projects up to the current one
C23_SubjectsOfEarlierProjectsExist ==
    AboutToPopulate /\ node_types[1] = NODE_TYPE_SUBJECT =>
        \A r \in KeptSubjectRecordsUpTo(project_num) :
            r.sys["submitter_id"] \in ReferencedSubjects =>
                r.sys["submitter_id"] \in DOMAIN subjects

(***************************************************************************)
(* Claims about load_field_type_lists (checked under SpecUnit).            *)
(***************************************************************************)
\* the fields of the node types of a schema that are not internal and have
\* properties, as <<node type, field>> pairs
SchemaFields(schema) ==
    UNION {{<<nt, f>> : f \in DOMAIN schema[nt]["properties"]} :
              nt \in {nt \in DOMAIN schema :
                         Chars[nt][1] # "_" /\ "properties" \in DOMAIN schema[nt]}}

\* the field has an enum or is a listed reference field of its node type
EnumOrReference(schema, nt, f) ==
    \/ "enum" \in DOMAIN schema[nt]["properties"][f]
    \/ nt \in DOMAIN REF_FIELDS /\ f \in REF_FIELDS[nt]

\* the declared type of the field is the type name t or a list that holds it
Declares(schema, nt, f, t) ==
    /\ "type" \in DOMAIN schema[nt]["properties"][f]
    /\ \E i \in DOMAIN schema[nt]["properties"][f]["type"].names :
           schema[nt]["properties"][f]["type"].names[i] = t

\* the rule table gives the field of the schema the rule the claim describes
RuleAsDescribed(table, schema, nt, f) ==
    /\ (nt \in DOMAIN table /\ f \in DOMAIN table[nt])
           <=> (EnumOrReference(schema, nt, f) \/ "type" \in DOMAIN schema[nt]["properties"][f])
    /\ (nt \in DOMAIN table /\ f \in DOMAIN table[nt]) =>
           IF EnumOrReference(schema, nt, f)
           THEN ~table[nt][f].is_number /\ ~table[nt][f].is_array
           ELSE /\ table[nt][f].is_number <=> Declares(schema, nt, f, "number")
                /\ table[nt][f].is_array <=> Declares(schema, nt, f, "array")

\* C24: after load_field_type_lists runs on an empty rule table, a field of a
\* node type that is not internal and has properties has a rule iff it has an
\* enum, is a listed reference field or has a type; with an enum or as a
\* reference field it is neither a number nor an array whatever its type,
\* otherwise it is a number iff its type is or holds 'number' and an array iff
\* its type is or holds 'array'.
C24_RulesFromSchema ==
    unit_fn = "load_field_type_lists" /\ unit_pc = "loaded" =>
        \A pair \in SchemaFields(unit_args.data_dictionary) :
            RuleAsDescribed(unit_out.node_type_fields_to_set, unit_args.data_dictionary,
                            pair[1], pair[2])

\* the rules loaded for a field with an enum and the type number, for the
\* reference field with the type number, and for a field with the types
\* number and null
C24_Witness ==
    /\ unit_fn = "load_field_type_lists"
    /\ unit_pc = "loaded"
    /\ unit_args.data_dictionary["subject"]["properties"]["x"] = EnumField @@ NumberField
    /\ unit_args.data_dictionary["subject"]["properties"]["project_id"] = NumberField
    /\ "study" \in DOMAIN unit_args.data_dictionary
    /\ ~unit_out.node_type_fields_to_set["subject"]["x"].is_number
    /\ ~unit_out.node_type_fields_to_set["subject"]["project_id"].is_number
    /\ unit_out.node_type_fields_to_set["study"]["y"].is_number

\* C27: after load_data_dictionary is called again with a changed schema and
\* load_field_type_lists is run again in the same process, the rule of every
\* field of the new schema is the one a fresh build from the new schema gives,
\* and no rule is left for a node type the new schema does not have.
C27_ReloadGivesFreshRules ==
    unit_fn = "load_field_type_lists" /\ unit_pc = "done" =>
        unit_out.node_type_fields_to_set
            = load_field_type_lists(unit_args.next_dictionary, <<>>).node_type_fields_to_set

\* the same when the next schema is the one loaded first
C27_ReloadOfSameSchema ==
    (/\ unit_fn = "load_field_type_lists"
     /\ unit_pc = "done"
     /\ unit_args.next_dictionary = unit_args.data_dictionary) =>
        unit_out.node_type_fields_to_set
            = load_field_type_lists(unit_args.next_dictionary, <<>>).node_type_fields_to_set

(***************************************************************************)
(* Claims about get_timings_by_subject_id (checked under SpecUnit).        *)
(***************************************************************************)
\* get_timings_by_subject_id has returned an index
TimingsIndexed ==
    /\ unit_fn = "get_timings_by_subject_id"
    /\ unit_pc \in {"done", "changed"}
    /\ unit_out.err = ""

\* the timing records of the input, project after project
InputTimingRecords == RecordsOfType(unit_args.data, NODE_TYPE_TIMING).v

\* the entries of the index, as <<node id, position>> pairs
IndexPositions ==
    UNION {{<<n, i>> : i \in DOMAIN unit_out.refs[n]} : n \in DOMAIN unit_out.refs}

\* the entries of the index made for the k-th timing record
EntriesOf(k) == {at \in IndexPositions : unit_out.refs[at[1]][at[2]].timing = k}

\* C25: a timing event that references N subjects has exactly N entries in
\* the index, one in the list of each referenced subject, and no two of them
\* are one object: after a field of one entry is changed, every other entry
\* and every source record is as it was.
C25_IndependentCopies ==
    TimingsIndexed =>
        /\ \A k \in DOMAIN InputTimingRecords :
               LET stubs == Get(InputTimingRecords[k].rel, "subjects", <<>>)
               IN  /\ Cardinality(EntriesOf(k)) = Len(stubs)
                   /\ \A j \in DOMAIN stubs :
                          Cardinality({at \in EntriesOf(k) : at[1] = stubs[j]["node_id"]}) = 1
        /\ \A at \in IndexPositions :
               (unit_pc = "changed" /\ at # unit_out.changed) =>
                   unit_out.heap[unit_out.refs[at[1]][at[2]]] = unit_out.v[at[1]][at[2]]
        /\ \A k \in DOMAIN InputTimingRecords :
               unit_out.heap[Source(k)] = InputTimingRecords[k].f

\* the entry of subject S1 for the event t1 was changed and the entry of
\* subject S2 for the same event was not
C25_Witness ==
    /\ TimingsIndexed
    /\ unit_pc = "changed"
    /\ unit_out.changed = <<NodeIdOf("S1"), 1>>
    /\ unit_out.refs[NodeIdOf("S1")][1].timing = 1
    /\ NodeIdOf("S2") \in DOMAIN unit_out.refs
    /\ unit_out.refs[NodeIdOf("S2")][1].timing = 1
    /\ unit_out.heap[unit_out.refs[NodeIdOf("S1")][1]]["timing_type"] = Str(<<"c", "h">>)
    /\ "timing_type" \notin DOMAIN unit_out.heap[unit_out.refs[NodeIdOf("S2")][1]]

\* the fields the node type timing declares as numbers
TimingNumberFields(data_dictionary) ==
    {f \in DOMAIN data_dictionary[NODE_TYPE_TIMING]["properties"] :
        TypeIs(data_dictionary[NODE_TYPE_TIMING]["properties"][f], "number")}

\* get_timings_by_subject_id has returned or raised
TimingsCalled ==
    /\ unit_fn = "get_timings_by_subject_id"
    /\ unit_pc = "done"

\* C28: whether get_timings_by_subject_id converts a timing field to a number
\* depends only on the declaration of the field by the node type timing: the
\* index is the one built with the number fields of the node type timing,
\* whatever another node type declares under the same name.
C28_ConversionByTimingDeclaration ==
    TimingsCalled =>
        LET as_declared == get_timings_by_subject_id(
                               unit_args.data, TimingNumberFields(unit_args.data_dictionary))
        IN  /\ unit_out.err = as_declared.err
            /\ unit_out.v = as_declared.v

\* the node type study declares no field course as a number
NoNumberCourseElsewhere ==
    ~ ("course" \in DOMAIN unit_args.data_dictionary["study"]["properties"]
       /\ TypeIs(unit_args.data_dictionary["study"]["properties"]["course"], "number"))

\* C28, where it holds: with no other node type declaring the field as a
\* number, the index is the one built from the declarations of timing.
C28_WithoutOtherDeclaration ==
    (TimingsCalled /\ NoNumberCourseElsewhere) =>
        LET as_declared == get_timings_by_subject_id(
                               unit_args.data, TimingNumberFields(unit_args.data_dictionary))
        IN  /\ unit_out.err = as_declared.err
            /\ unit_out.v = as_declared.v

\* the optional fields of the k-th timing record whose value is the number 0
ZeroFields(k) ==
    {x \in TimingOptionalFields \cap DOMAIN InputTimingRecords[k].f :
        InputTimingRecords[k].f[x] = PyInt(<<>>)}

\* C29: a field of a timing event whose source value is the number 0 is kept
\* in every entry of the timing index made for the event.
C29_ZeroKeptInIndex ==
    (TimingsCalled /\ unit_out.err = "") =>
        \A k \in DOMAIN InputTimingRecords : \A x \in ZeroFields(k) :
            \A at \in EntriesOf(k) :
                /\ x \in DOMAIN unit_out.v[at[1]][at[2]]
                /\ unit_out.v[at[1]][at[2]][x] = PyInt(<<>>)

\* C29, where it holds: a field whose source value is the number 10 is kept
\* in every entry made for the event.
C29_TenKeptInIndex ==
    (TimingsCalled /\ unit_out.err = "") =>
        \A k \in DOMAIN InputTimingRecords :
            \A x \in {y \in TimingOptionalFields \cap DOMAIN InputTimingRecords[k].f :
                         InputTimingRecords[k].f[y] = PyInt(Ten)} :
                \A at \in EntriesOf(k) :
                    /\ x \in DOMAIN unit_out.v[at[1]][at[2]]
                    /\ unit_out.v[at[1]][at[2]][x] = PyInt(Ten)

(***************************************************************************)
(* Claims about the survival record of a subject (checked under Spec).     *)
(***************************************************************************)
\* the survival_characteristic records of project p whose only subject
\* association is a subject created in a project up to p
OwnSurvivalRecords(p) ==
    {r \in Range(Get(data[p], NODE_TYPE_SURVIVAL_CHARACTERISTIC, <<>>)) :
        /\ Len(r.rel["subjects"]) = 1
        /\ r.rel["subjects"][1]["submitter_id"] \in
               SubmitterIdsOf(KeptSubjectRecordsUpTo(p))}

\* the document of the subject has a survival_characteristics record
HasSurvivalRecord(submitter_id) ==
    /\ "survival_characteristics" \in DOMAIN subjects[submitter_id].c
    /\ subjects[submitter_id].c["survival_characteristics"] # <<>>

\* generate_subject_json has returned, with subject as the first node type
ReturnedSubjectsFirst ==
    /\ pc = "done"
    /\ node_types[1] = NODE_TYPE_SUBJECT

\* C26: a subject of the subject map with a survival_characteristic record,
\* in some project, whose only subject association is that subject has a
\* survival_characteristics record in its document after generate_subject_json
\* returns, whatever other survival_characteristic records the project holds
\* (stated for subject as the first node type and a subject created in a
\* project up to the one of the record).
C26_OwnSurvivalRecordKept ==
    ReturnedSubjectsFirst =>
        \A p \in DOMAIN data : \A r \in OwnSurvivalRecords(p) :
            r.rel["subjects"][1]["submitter_id"] \in DOMAIN subjects =>
                HasSurvivalRecord(r.rel["subjects"][1]["submitter_id"])

\* no survival_characteristic record of the input has several subjects
NoSharedSurvivalRecord ==
    \A p \in DOMAIN data :
        \A r \in Range(Get(data[p], NODE_TYPE_SURVIVAL_CHARACTERISTIC, <<>>)) :
            Len(r.rel["subjects"]) <= 1

\* C26, where it holds: when no survival_characteristic record has several
\* subjects, the subject has a survival_characteristics record.
C26_WithoutSharedRecords ==
    (ReturnedSubjectsFirst /\ NoSharedSurvivalRecord) =>
        \A p \in DOMAIN data : \A r \in OwnSurvivalRecords(p) :
            r.rel["subjects"][1]["submitter_id"] \in DOMAIN subjects =>
                HasSurvivalRecord(r.rel["subjects"][1]["submitter_id"])

(***************************************************************************)
(* Claims about a sibling control type (checked under SpecOrder).          *)
(***************************************************************************)
\* the study records of the input that have a treatment_arm and one subject,
\* whose document was returned
ControlledStudyRecords ==
    UNION {{r \in Range(Get(data[p], "study", <<>>)) :
               /\ "treatment_arm" \in DOMAIN r.f
               /\ Len(r.rel["subjects"]) = 1
               /\ r.rel["subjects"][1]["submitter_id"] \in DOMAIN subjects} :
           p \in DOMAIN data}

\* the output record of the one study record of the subject has a treatment_arm
TreatmentArmPopulated(submitter_id) ==
    /\ "studies" \in DOMAIN subjects[submitter_id].c
    /\ Len(subjects[submitter_id].c["studies"]) = 1
    /\ "treatment_arm" \in DOMAIN subjects[submitter_id].c["studies"][1]
    /\ subjects[submitter_id].c["studies"][1]["treatment_arm"] # None

\* the answer of can_populate_node_record_field for the treatment_arm of the
\* record on the subject documents as they are returned, which hold all the
\* records of the control type whatever the order of the node types was
AnswerOnAllControlRecords(record) ==
    can_populate_node_record_field(cfg.suppressed, "study", "treatment_arm", record,
                                   subjects).v

\* C30: under a suppression rule whose control field is of a sibling node
\* type, the decision of can_populate_node_record_field for a record is the
\* same whether the control type comes before or after the node type of the
\* record in node_types: in either order the treatment_arm is populated
\* exactly when the rule allows it on the control records of the subject.
C30_DecisionIndependentOfOrder ==
    pc = "done" =>
        \A r \in ControlledStudyRecords :
            TreatmentArmPopulated(r.rel["subjects"][1]["submitter_id"])
                <=> AnswerOnAllControlRecords(r)

\* the control type survival_characteristic comes before study in node_types
ControlTypeFirst ==
    \E i, j \in DOMAIN node_types :
        /\ i < j
        /\ node_types[i] = NODE_TYPE_SURVIVAL_CHARACTERISTIC
        /\ node_types[j] = "study"

\* C30, where it holds: with the control type before the node type of the
\* record, the treatment_arm is populated exactly when the rule allows it on
\* the control records of the subject.
C30_ControlTypeFirst ==
    (pc = "done" /\ ControlTypeFirst) =>
        \A r \in ControlledStudyRecords :
            TreatmentArmPopulated(r.rel["subjects"][1]["submitter_id"])
                <=> AnswerOnAllControlRecords(r)
====
